---------------------------- MODULE Spec2Model ----------------------------
(***************************************************************************)
(* A model of bumper: the commit parser, the release type resolver, the    *)
(* version transition, the changelog renderer and the release sequence.    *)
(* Strings are TLA+ strings; they are taken apart character by character   *)
(* with Len, SubSeq and \o, the way the TypeScript code does with split,   *)
(* match and substring.                                                    *)
(***************************************************************************)
EXTENDS Integers, Sequences, FiniteSets, TLC

VARIABLES
    currentVersion,   \* getNextVersion: the currentVersion argument
    versionType,      \* getNextVersion: the releaseType argument
    nextVersion,      \* getNextVersion: the returned string, NotCalled before the call
    message,          \* parseCommitMessage: the message argument
    parsed,           \* parseCommitMessage: the returned Partial<Commit>
    commitLine,       \* parseCommitLine: one line of git log output
    commit,           \* parseCommitLine: the returned Commit
    sectionKey,       \* getSectionKey(commit.type): the returned section title
    commits,          \* the Commit[] handed to the resolver and the renderer
    resolvedType,     \* determineReleaseType(commits): the returned release type
    sections,         \* categorizeCommits(commits): the returned ChangelogSection[]
    content,          \* generateChangelogContent(releaseInfo): the returned markdown
    changelogFile,    \* the text of CHANGELOG.md, NoFile when it does not exist
    packageVersion,   \* the version field of package.json
    history,          \* the git log lines of the commits on HEAD, oldest first
    tags,             \* the git tags: name and the number of commits they cover
    uncommitted,      \* the files that differ from HEAD (git status --porcelain)
    remote,           \* what has been pushed: commits of HEAD and tag names
    npmPublished,     \* the versions published to the npm registry
    ghReleases,       \* the tags that have a GitHub release
    release,          \* the createRelease call: position, options and locals
    console,          \* what the last changelog command displayed
    runs,             \* the number of commands run so far
    atStart,          \* the persistent state when the last command started
    formatArgs,       \* formatCommitMessage: message, type, scope and breaking
    formatted,        \* formatCommitMessage: the returned string
    suggestion,       \* suggestCommitFormat(message): the returned suggestion
    legacyMessages,   \* analyzeCommitPatterns: the messages of the commits
    patterns,         \* analyzeCommitPatterns: the returned CommitPattern[]
    analysis,         \* determineMigrationStrategy: the counts of the analysis
    strategy,         \* determineMigrationStrategy: the returned strategy
    checkedMessage,   \* validateCommitMessage: the message argument
    validation,       \* validateCommitMessage: the returned ValidationResult
    configFile,       \* bumper.config.json: missing, not JSON, or the parsed object
    ghState,          \* the GitHub CLI: unavailable, or what git describe finds
    mergedPRs,        \* what gh pr list reports as merged since the last tag
    loadedConfig,     \* loadConfig(): the returned GitHubConfig
    readiness,        \* checkReleaseReadiness(): the returned result
    bulk,             \* the bulkFormatCommits call: position and options
    bulkFormatted,    \* bulkFormatCommits: the formatted messages it previews
    scriptFile,       \* whether .git-rewrite-commits.sh exists
    filterBranchRuns  \* how often git filter-branch has rewritten the history

versionVars == <<currentVersion, versionType, nextVersion>>

parseVars == <<message, parsed, commitLine, commit, sectionKey>>

changelogVars == <<commits, resolvedType, sections, content>>

\* What outlives a command: the files, the repository, the remote and the registries.
persistentVars ==
    <<changelogFile, packageVersion, history, tags, uncommitted, remote, npmPublished, ghReleases>>

releaseVars == <<persistentVars, release, console, runs, atStart>>

formatVars == <<formatArgs, formatted, suggestion>>

legacyVars == <<legacyMessages, patterns, analysis, strategy>>

validateVars == <<checkedMessage, validation>>

\* The formatter, the legacy analysis and the validator.
githubVars == <<configFile, ghState, mergedPRs, loadedConfig, readiness>>

bulkVars == <<bulk, bulkFormatted, scriptFile, filterBranchRuns>>

toolVars == <<formatVars, legacyVars, validateVars, githubVars, bulkVars>>

vars == <<versionVars, parseVars, changelogVars, releaseVars, toolVars>>

\* A result variable before the call, and after it with the returned value.
NotCalled == [called |-> FALSE]

Returned(v) == [called |-> TRUE, value |-> v]

\* An optional string field that is absent (JavaScript undefined). No string of
\* the model contains '<', so no string of the program equals it.
Undefined == "<undefined>"

-----------------------------------------------------------------------------
(* Characters and strings *)

CharAt(s, i) == SubSeq(s, i, i)

Digits == {"0", "1", "2", "3", "4", "5", "6", "7", "8", "9"}

DigitString == "0123456789"

RECURSIVE IndexIn(_, _, _)
\* The 1-based position of character c in string s at or after i, 0 when absent.
IndexIn(s, c, i) ==
    IF i > Len(s) THEN 0
    ELSE IF CharAt(s, i) = c THEN i
    ELSE IndexIn(s, c, i + 1)

RECURSIVE SplitOn(_, _)
\* String.prototype.split(sep) for a one-character separator: "" gives <<"">>.
SplitOn(s, sep) ==
    LET i == IndexIn(s, sep, 1)
    IN  IF i = 0 THEN <<s>>
        ELSE <<SubSeq(s, 1, i - 1)>> \o SplitOn(SubSeq(s, i + 1, Len(s)), sep)

RECURSIVE AllIn(_, _)
\* Every character of s is in the set cs.
AllIn(s, cs) == s = "" \/ (Head(s) \in cs /\ AllIn(Tail(s), cs))

\* The character at position i, "" outside the string.
At(s, i) == IF i \in 1..Len(s) THEN SubSeq(s, i, i) ELSE ""

CharsOf(s) == {CharAt(s, i) : i \in 1..Len(s)}

LowerLetters == "abcdefghijklmnopqrstuvwxyz"

UpperLetters == "ABCDEFGHIJKLMNOPQRSTUVWXYZ"

\* The regular expression class \w.
WordChars == CharsOf(LowerLetters) \cup CharsOf(UpperLetters) \cup Digits \cup {"_"}

\* The characters of the regular expression class \s that the model's messages use.
Whitespace == {" ", "\t", "\n", "\r"}

\* The characters the regular expression '.' does not match.
LineTerminators == {"\n", "\r"}

\* The lower-case letter of each upper-case letter.
LowerOf == [c \in CharsOf(UpperLetters) |-> CharAt(LowerLetters, IndexIn(UpperLetters, c, 1))]

ToLowerChar(c) == IF c \in DOMAIN LowerOf THEN LowerOf[c] ELSE c

RECURSIVE ToLowerCase(_)
\* String.prototype.toLowerCase, character by character (the string is halved
\* to keep the evaluation shallow).
ToLowerCase(s) ==
    IF Len(s) <= 1 THEN ToLowerChar(s)
    ELSE ToLowerCase(SubSeq(s, 1, Len(s) \div 2))
            \o ToLowerCase(SubSeq(s, Len(s) \div 2 + 1, Len(s)))

RECURSIVE SpanLen(_, _, _)
\* The length of the longest run of characters of cs in s starting at position i.
SpanLen(s, i, cs) ==
    IF i > Len(s) \/ CharAt(s, i) \notin cs THEN 0
    ELSE 1 + SpanLen(s, i + 1, cs)

RECURSIVE FirstIn(_, _, _)
\* The position of the first character of cs in s at or after i, 0 when there is none.
FirstIn(s, cs, i) ==
    IF i > Len(s) THEN 0
    ELSE IF CharAt(s, i) \in cs THEN i
    ELSE FirstIn(s, cs, i + 1)

\* a || b for strings: the empty string and undefined are falsy.
OrElse(a, b) == IF a = "" \/ a = Undefined THEN b ELSE a

-----------------------------------------------------------------------------
(* Number(string) and number-to-string, as getNextVersion uses them *)

\* A JavaScript number: an integer or NaN.
NaN == [nan |-> TRUE, val |-> 0]

Num(n) == [nan |-> FALSE, val |-> n]

DigitValue(c) == IndexIn(DigitString, c, 1) - 1

RECURSIVE DecimalValue(_)
\* The value of a non-empty string of decimal digits.
DecimalValue(s) ==
    IF Len(s) = 1 THEN DigitValue(s)
    ELSE 10 * DecimalValue(SubSeq(s, 1, Len(s) - 1)) + DigitValue(CharAt(s, Len(s)))

\* JavaScript Number(s) for a string of digits, letters and '-': the empty
\* string is 0, an optionally signed run of digits is its value, and anything
\* else is NaN.
Number(s) ==
    IF s = "" THEN Num(0)
    ELSE IF AllIn(s, Digits) THEN Num(DecimalValue(s))
    ELSE IF Head(s) = "-" /\ Len(s) > 1 /\ AllIn(Tail(s), Digits)
         THEN Num(0 - DecimalValue(Tail(s)))
    ELSE NaN

RECURSIVE NatToString(_)
NatToString(n) ==
    IF n < 10 THEN CharAt(DigitString, n + 1)
    ELSE NatToString(n \div 10) \o CharAt(DigitString, (n % 10) + 1)

\* Template-literal conversion `${n}` of an integer.
NumToString(n) == IF n < 0 THEN "-" \o NatToString(0 - n) ELSE NatToString(n)

\* versionParts[i] || 0: a missing element (undefined), NaN and 0 are falsy.
PartOrZero(versionParts, i) ==
    IF i > Len(versionParts) THEN 0
    ELSE IF versionParts[i].nan THEN 0
    ELSE versionParts[i].val

-----------------------------------------------------------------------------
(* Variables of the operations a specification does not exercise *)

IdleVersion ==
    /\ currentVersion = ""
    /\ versionType = "patch"
    /\ nextVersion = NotCalled

IdleParse ==
    /\ message = ""
    /\ parsed = NotCalled
    /\ commitLine = ""
    /\ commit = NotCalled
    /\ sectionKey = NotCalled

IdleChangelog ==
    /\ commits = <<>>
    /\ resolvedType = NotCalled
    /\ sections = NotCalled
    /\ content = NotCalled

\* CHANGELOG.md does not exist. No text of the model contains '<'.
NoFile == "<no file>"

IdleRelease ==
    /\ changelogFile = NoFile
    /\ packageVersion = ""
    /\ history = <<>>
    /\ tags = {}
    /\ uncommitted = {}
    /\ remote = [commits |-> 0, tags |-> {}]
    /\ npmPublished = {}
    /\ ghReleases = {}
    /\ release = [pc |-> "idle"]
    /\ console = [kind |-> "nothing"]
    /\ runs = 0
    /\ atStart = <<>>

IdleFormat ==
    /\ formatArgs = [message |-> "", type |-> Undefined, scope |-> Undefined, breaking |-> FALSE]
    /\ formatted = NotCalled
    /\ suggestion = NotCalled

IdleLegacy ==
    /\ legacyMessages = <<>>
    /\ patterns = NotCalled
    /\ analysis = [legacyCommits |-> 0, conventionalCommits |-> 0]
    /\ strategy = NotCalled

IdleValidate ==
    /\ checkedMessage = ""
    /\ validation = NotCalled

IdleGitHub ==
    /\ configFile = [kind |-> "missing"]
    /\ ghState = "unavailable"
    /\ mergedPRs = <<>>
    /\ loadedConfig = NotCalled
    /\ readiness = NotCalled

IdleBulk ==
    /\ bulk = [pc |-> "idle", dryRun |-> FALSE, proceed |-> "unasked",
               confirmRewrite |-> "unasked", outcome |-> ""]
    /\ bulkFormatted = NotCalled
    /\ scriptFile = FALSE
    /\ filterBranchRuns = 0

IdleTools == IdleFormat /\ IdleLegacy /\ IdleValidate /\ IdleGitHub /\ IdleBulk

-----------------------------------------------------------------------------
(* getNextVersion *)

ReleaseTypes == {"major", "minor", "patch"}

\* A plausible slip: the minor bump forgets to reset the patch component.
getNextVersionNoReset(version, releaseType) ==
    LET parts == SplitOn(version, ".")
        versionParts == [i \in 1..Len(parts) |-> Number(parts[i])]
        major == PartOrZero(versionParts, 1)
        minor == PartOrZero(versionParts, 2)
        patch == PartOrZero(versionParts, 3)
    IN  CASE releaseType = "major" ->
                NumToString(major + 1) \o ".0.0"
          [] releaseType = "minor" ->
                NumToString(major) \o "." \o NumToString(minor + 1) \o "." \o NumToString(patch)
          [] releaseType = "patch" ->
                NumToString(major) \o "." \o NumToString(minor) \o "." \o NumToString(patch + 1)

getNextVersion(version, releaseType) ==
    LET parts == SplitOn(version, ".")
        versionParts == [i \in 1..Len(parts) |-> Number(parts[i])]
        major == PartOrZero(versionParts, 1)
        minor == PartOrZero(versionParts, 2)
        patch == PartOrZero(versionParts, 3)
    IN  CASE releaseType = "major" ->
                NumToString(major + 1) \o ".0.0"
          [] releaseType = "minor" ->
                NumToString(major) \o "." \o NumToString(minor + 1) \o ".0"
          [] releaseType = "patch" ->
                NumToString(major) \o "." \o NumToString(minor) \o "." \o NumToString(patch + 1)

-----------------------------------------------------------------------------
(* The version transition on its own: every bounded version string and     *)
(* release type, then one call of getNextVersion.                          *)

\* The largest number of dot-separated components of an input version.
MaxParts == 3

\* Components of the input versions: empty, zero, one and two digits, a
\* leading zero, letters, a digit followed by a letter, and signed numbers.
ComponentPool == {"", "0", "1", "9", "19", "a", "1a", "-1", "-0"}

RECURSIVE VersionsOf(_)
VersionsOf(n) ==
    IF n = 1 THEN ComponentPool
    ELSE {p \o "." \o r : p \in ComponentPool, r \in VersionsOf(n - 1)}

VersionStrings == UNION {VersionsOf(n) : n \in 1..MaxParts}

InitVersion ==
    /\ currentVersion \in VersionStrings
    /\ versionType \in ReleaseTypes
    /\ nextVersion = NotCalled
    /\ IdleParse
    /\ IdleChangelog
    /\ IdleRelease
    /\ IdleTools

CallGetNextVersion ==
    /\ ~nextVersion.called
    /\ nextVersion' = Returned(getNextVersion(currentVersion, versionType))
    /\ UNCHANGED <<currentVersion, versionType, parseVars, changelogVars, releaseVars, toolVars>>

NextVersion == CallGetNextVersion

SpecVersion == InitVersion /\ [][NextVersion]_vars

-----------------------------------------------------------------------------
(* Claims about getNextVersion *)

\* A canonical non-negative decimal numeral: digits only, no leading zero.
IsNumeral(s) == s # "" /\ AllIn(s, Digits) /\ (Len(s) > 1 => Head(s) # "0")

\* A well-formed triplet: three numerals separated by dots.
IsTriplet(s) ==
    LET out == SplitOn(s, ".")
    IN  Len(out) = 3 /\ \A i \in 1..3 : IsNumeral(out[i])

\* The input is X.Y.Z with three non-negative integer components.
IsVersionXYZ(s) ==
    LET in == SplitOn(s, ".")
    IN  Len(in) = 3 /\ \A i \in 1..3 : in[i] # "" /\ AllIn(in[i], Digits)

\* C2: for a version X.Y.Z of non-negative integers, getNextVersion returns
\* (X+1).0.0 for major, X.(Y+1).0 for minor and X.Y.(Z+1) for patch: the bumped
\* component grows by exactly one, lower ones are 0, higher ones are unchanged.
C2_BumpByOne ==
    (nextVersion.called /\ IsVersionXYZ(currentVersion)) =>
        LET in == SplitOn(currentVersion, ".")
            out == SplitOn(nextVersion.value, ".")
            k == CASE versionType = "major" -> 1
                   [] versionType = "minor" -> 2
                   [] versionType = "patch" -> 3
        IN  /\ IsTriplet(nextVersion.value)
            /\ \A i \in 1..3 :
                  DecimalValue(out[i]) =
                      IF i < k THEN DecimalValue(in[i])
                      ELSE IF i = k THEN DecimalValue(in[i]) + 1
                      ELSE 0

\* C2 witness: the patch bump of 1.9.9 carries into a second digit.
C2_Witness ==
    /\ nextVersion.called
    /\ currentVersion = "1.9.9"
    /\ versionType = "patch"
    /\ nextVersion.value = "1.9.10"

\* C3: getNextVersion returns a well-formed triplet of three non-negative
\* integers for every input string and release type.
C3_AlwaysTriplet == nextVersion.called => IsTriplet(nextVersion.value)

-----------------------------------------------------------------------------
(* parseCommitMessage, parseCommitLine and getSectionKey *)

NoMatch == [matched |-> FALSE]

\* message.match(/^(\w+)(?:\(([\w-]+)\))?(!)?:\s(.+)$/): the groups of the match,
\* an unmatched optional group being Undefined. Every quantifier is followed by
\* a character outside its class, so the greedy match is the only one.
matchConventional(m) ==
    LET typeLen == SpanLen(m, 1, WordChars)
        p1 == typeLen + 1
        hasParen == At(m, p1) = "("
        scopeLen == SpanLen(m, p1 + 1, WordChars \cup {"-"})
        scopeOk == scopeLen > 0 /\ At(m, p1 + 1 + scopeLen) = ")"
        p2 == IF hasParen THEN p1 + scopeLen + 2 ELSE p1
        hasBang == At(m, p2) = "!"
        p3 == IF hasBang THEN p2 + 1 ELSE p2
        rest == SubSeq(m, p3 + 2, Len(m))
    IN  IF /\ typeLen > 0
           /\ (hasParen => scopeOk)
           /\ At(m, p3) = ":"
           /\ At(m, p3 + 1) \in Whitespace
           /\ rest # ""
           /\ CharsOf(rest) \cap LineTerminators = {}
        THEN [matched |-> TRUE,
              commitType |-> SubSeq(m, 1, typeLen),
              commitScope |-> IF hasParen THEN SubSeq(m, p1 + 1, p1 + scopeLen) ELSE Undefined,
              isBreaking |-> IF hasBang THEN "!" ELSE Undefined,
              commitSubject |-> rest]
        ELSE NoMatch

\* A plausible slip: the first word is taken without lowercasing the message.
firstWordOfCaseSensitive(m) ==
    LET ws == FirstIn(m, Whitespace, 1)
    IN  IF ws = 0 THEN m ELSE SubSeq(m, 1, ws - 1)

\* message.toLowerCase().split(/\s+/)[0]: the text before the first whitespace.
firstWordOf(m) ==
    LET lower == ToLowerCase(m)
        ws == FirstIn(lower, Whitespace, 1)
    IN  IF ws = 0 THEN lower ELSE SubSeq(lower, 1, ws - 1)

\* A plausible slip: an unknown first word is itself taken as the type.
inferTypeNoDefault(firstWord) ==
    IF firstWord \in {"add", "new", "create", "implement"} THEN "feat"
    ELSE IF firstWord \in {"fix", "bug", "issue", "problem"} THEN "fix"
    ELSE IF firstWord \in {"update", "upgrade", "bump"} THEN "chore"
    ELSE IF firstWord \in {"refactor", "clean", "improve"} THEN "refactor"
    ELSE IF firstWord \in {"test", "spec"} THEN "test"
    ELSE IF firstWord \in {"doc", "readme", "comment"} THEN "docs"
    ELSE firstWord

\* The if / else-if chain over the first word, 'chore' when nothing matches.
inferType(firstWord) ==
    IF firstWord \in {"add", "new", "create", "implement"} THEN "feat"
    ELSE IF firstWord \in {"fix", "bug", "issue", "problem"} THEN "fix"
    ELSE IF firstWord \in {"update", "upgrade", "bump"} THEN "chore"
    ELSE IF firstWord \in {"refactor", "clean", "improve"} THEN "refactor"
    ELSE IF firstWord \in {"test", "spec"} THEN "test"
    ELSE IF firstWord \in {"doc", "readme", "comment"} THEN "docs"
    ELSE "chore"

\* !!isBreaking as the strings "true" and "false".
BoolString(b) == IF b THEN "true" ELSE "false"

parseCommitMessage(m) ==
    LET match == matchConventional(m)
    IN  IF ~match.matched
        THEN [type |-> inferType(firstWordOf(m)),
              scope |-> Undefined,
              breaking |-> Undefined,
              subject |-> m]
        ELSE [type |-> OrElse(match.commitType, "chore"),
              scope |-> OrElse(match.commitScope, Undefined),
              breaking |-> BoolString(match.isBreaking # Undefined),
              subject |-> OrElse(match.commitSubject, m)]

\* commitHash.substring(0, HashLen)
HashLen == 8

\* commitParts[i] || '' (i counted from 1)
PartOrEmpty(commitParts, i) == IF i > Len(commitParts) THEN "" ELSE commitParts[i]

parseCommitLine(line) ==
    LET commitParts == SplitOn(line, "|")
        commitHash == PartOrEmpty(commitParts, 1)
        commitMessage == PartOrEmpty(commitParts, 2)
        commitAuthor == PartOrEmpty(commitParts, 3)
        commitDate == PartOrEmpty(commitParts, 4)
        p == parseCommitMessage(commitMessage)
    IN  [hash |-> SubSeq(commitHash, 1, IF Len(commitHash) < HashLen THEN Len(commitHash) ELSE HashLen),
         type |-> OrElse(p.type, "chore"),
         scope |-> p.scope,
         subject |-> OrElse(p.subject, commitMessage),
         breaking |-> p.breaking,
         author |-> commitAuthor,
         date |-> commitDate]

\* The 12 own properties of COMMIT_TYPES. The emoji of each entry is written
\* as its ASCII name between colons.
COMMIT_TYPES ==
    [feat |-> [emoji |-> ":sparkles:", title |-> "Features"],
     fix |-> [emoji |-> ":bug:", title |-> "Bug Fixes"],
     docs |-> [emoji |-> ":books:", title |-> "Documentation"],
     style |-> [emoji |-> ":lipstick:", title |-> "Styles"],
     refactor |-> [emoji |-> ":recycle:", title |-> "Code Refactoring"],
     perf |-> [emoji |-> ":zap:", title |-> "Performance Improvements"],
     test |-> [emoji |-> ":white_check_mark:", title |-> "Tests"],
     build |-> [emoji |-> ":package:", title |-> "Builds"],
     ci |-> [emoji |-> ":wrench:", title |-> "Continuous Integration"],
     chore |-> [emoji |-> ":hammer:", title |-> "Chores"],
     revert |-> [emoji |-> ":rewind:", title |-> "Reverts"],
     security |-> [emoji |-> ":lock:", title |-> "Security Fixes"]]

\* COMMIT_TYPES is an object literal, so a property lookup that finds no own
\* property goes on to Object.prototype; these are its property names. Each
\* is a function or an object: truthy, with no emoji and no title property.
ObjectPrototypeKeys ==
    {"constructor", "hasOwnProperty", "isPrototypeOf", "propertyIsEnumerable",
     "toLocaleString", "toString", "valueOf", "__proto__",
     "__defineGetter__", "__defineSetter__", "__lookupGetter__", "__lookupSetter__"}

OtherChanges == ":wrench: Other Changes"

\* typeInfo = COMMIT_TYPES[commitType]; typeInfo ? `${emoji} ${title}` : fallback.
\* An inherited property is truthy and `${undefined} ${undefined}` is the key.
getSectionKey(commitType) ==
    IF commitType \in DOMAIN COMMIT_TYPES
    THEN COMMIT_TYPES[commitType].emoji \o " " \o COMMIT_TYPES[commitType].title
    ELSE IF commitType \in ObjectPrototypeKeys
    THEN "undefined undefined"
    ELSE OtherChanges

-----------------------------------------------------------------------------
(* The parser on its own: every message of the pool, alone and inside a     *)
(* git log line, then parseCommitMessage, parseCommitLine and getSectionKey. *)

\* Messages shaped like a conventional commit, each part well or badly formed.
ConventionalLike ==
    {h \o sc \o b \o sep \o d :
        h \in {"feat", "fix", "zzz", "constructor", "Fix", "a_1", ""},
        sc \in {"", "(api)", "(a-b)", "()", "(a b)", "(api"},
        b \in {"", "!"},
        sep \in {": ", ":", ":\t", ":\n", " "},
        d \in {"x", "", " x ", "add y.", "a\nb", "a|b"}}

\* Free-form messages: every keyword of the fallback classifier and a few
\* other first words, followed by nothing, whitespace or punctuation.
LegacyLike ==
    {h \o t :
        h \in {"add", "new", "create", "implement", "fix", "bug", "issue", "problem",
               "update", "upgrade", "bump", "refactor", "clean", "improve",
               "test", "spec", "doc", "readme", "comment",
               "Add", "ADD", "adds", "wip", "feat", "", " add", "\nfix"},
        t \in {"", " x", "\tx", ":x", "-x", "  new feature"}}

Messages == ConventionalLike \cup LegacyLike \cup {"add new feature"}

\* git log --pretty=format:"%H|%s|%an|%ad" lines around a message: a full line,
\* a line without author and date, and the message alone.
LinesOf(m) == {"0123456789ab|" \o m \o "|ann|2024-01-02", "abc|" \o m, m}

InitParse ==
    /\ message \in Messages
    /\ commitLine \in LinesOf(message)
    /\ parsed = NotCalled
    /\ commit = NotCalled
    /\ sectionKey = NotCalled
    /\ IdleVersion
    /\ IdleChangelog
    /\ IdleRelease
    /\ IdleTools

CallParseCommitMessage ==
    /\ ~parsed.called
    /\ parsed' = Returned(parseCommitMessage(message))
    /\ UNCHANGED <<message, commitLine, commit, sectionKey, versionVars, changelogVars, releaseVars, toolVars>>

CallParseCommitLine ==
    /\ ~commit.called
    /\ commit' = Returned(parseCommitLine(commitLine))
    /\ UNCHANGED <<message, commitLine, parsed, sectionKey, versionVars, changelogVars, releaseVars, toolVars>>

CallGetSectionKey ==
    /\ commit.called
    /\ ~sectionKey.called
    /\ sectionKey' = Returned(getSectionKey(commit.value.type))
    /\ UNCHANGED <<message, commitLine, parsed, commit, versionVars, changelogVars, releaseVars, toolVars>>

NextParse == CallParseCommitMessage \/ CallParseCommitLine \/ CallGetSectionKey

SpecParse == InitParse /\ [][NextParse]_vars

-----------------------------------------------------------------------------
(* Claims about the parser *)

\* The ways to read m as type[(scope)][!]:<whitespace>description: tl is the
\* length of the type, sl of the scope (0: no scope), bang the '!' marker.
Readings(m) ==
    {r \in [tl : 1..Len(m), sl : 0..Len(m), bang : BOOLEAN] :
        LET scopeEnd == IF r.sl > 0 THEN r.tl + r.sl + 2 ELSE r.tl
            colon == scopeEnd + (IF r.bang THEN 1 ELSE 0) + 1
        IN  /\ colon + 2 <= Len(m)
            /\ AllIn(SubSeq(m, 1, r.tl), WordChars)
            /\ r.sl > 0 => /\ CharAt(m, r.tl + 1) = "("
                           /\ AllIn(SubSeq(m, r.tl + 2, r.tl + 1 + r.sl), WordChars \cup {"-"})
                           /\ CharAt(m, scopeEnd) = ")"
            /\ r.bang => CharAt(m, scopeEnd + 1) = "!"
            /\ CharAt(m, colon) = ":"
            /\ CharAt(m, colon + 1) \in Whitespace
            /\ CharsOf(SubSeq(m, colon + 2, Len(m))) \cap LineTerminators = {}}

ReadType(m, r) == SubSeq(m, 1, r.tl)

ReadScope(m, r) == IF r.sl > 0 THEN SubSeq(m, r.tl + 2, r.tl + 1 + r.sl) ELSE Undefined

ReadDescription(m, r) ==
    SubSeq(m, (IF r.sl > 0 THEN r.tl + r.sl + 2 ELSE r.tl) + (IF r.bang THEN 1 ELSE 0) + 3, Len(m))

RECURSIVE TrimStart(_)
TrimStart(s) == IF s # "" /\ Head(s) \in Whitespace THEN TrimStart(Tail(s)) ELSE s

RECURSIVE TrimEnd(_)
TrimEnd(s) ==
    IF s # "" /\ CharAt(s, Len(s)) \in Whitespace THEN TrimEnd(SubSeq(s, 1, Len(s) - 1)) ELSE s

Trim(s) == TrimEnd(TrimStart(s))

\* C6: for a message of the conventional form, parseCommitMessage returns the
\* literal type, the scope without parentheses (absent when none is written),
\* breaking = true exactly when '!' is present, and the trimmed description.
C6_ParseRecoversTrimmed ==
    parsed.called =>
        \A r \in Readings(message) :
            /\ parsed.value.type = ReadType(message, r)
            /\ parsed.value.scope = ReadScope(message, r)
            /\ parsed.value.breaking = BoolString(r.bang)
            /\ parsed.value.subject = Trim(ReadDescription(message, r))

\* What the parser does return for such a message: the same fields, with the
\* description taken verbatim, surrounding whitespace included.
ParseRecoversVerbatim ==
    parsed.called =>
        \A r \in Readings(message) :
            /\ parsed.value.type = ReadType(message, r)
            /\ parsed.value.scope = ReadScope(message, r)
            /\ parsed.value.breaking = BoolString(r.bang)
            /\ parsed.value.subject = ReadDescription(message, r)

\* The keyword-to-type table of the fallback classifier.
KeywordType ==
    [add |-> "feat", new |-> "feat", create |-> "feat", implement |-> "feat",
     fix |-> "fix", bug |-> "fix", issue |-> "fix", problem |-> "fix",
     update |-> "chore", upgrade |-> "chore", bump |-> "chore",
     refactor |-> "refactor", clean |-> "refactor", improve |-> "refactor",
     test |-> "test", spec |-> "test",
     doc |-> "docs", readme |-> "docs", comment |-> "docs"]

\* The first whitespace-delimited token of m: what precedes its first
\* whitespace character (the empty string when m begins with whitespace).
FirstToken(m) ==
    LET k == CHOOSE k \in 0..Len(m) :
                 /\ CharsOf(SubSeq(m, 1, k)) \cap Whitespace = {}
                 /\ k = Len(m) \/ CharAt(m, k + 1) \in Whitespace
    IN  SubSeq(m, 1, k)

\* C7: a message that is not of the conventional form is classified by its
\* lowercase first whitespace-delimited token through the keyword table, with
\* chore for every other token; the subject is the whole message and neither
\* scope nor breaking is set.
C7_FallbackByFirstToken ==
    (parsed.called /\ Readings(message) = {}) =>
        LET token == ToLowerCase(FirstToken(message))
        IN  /\ parsed.value.type =
                  IF token \in DOMAIN KeywordType THEN KeywordType[token] ELSE "chore"
            /\ parsed.value.subject = message
            /\ parsed.value.scope = Undefined
            /\ parsed.value.breaking = Undefined

\* C7 witness: the scenario 'add new feature' is classified feat.
C7_Witness ==
    /\ parsed.called
    /\ message = "add new feature"
    /\ Readings(message) = {}
    /\ parsed.value.type = "feat"
    /\ parsed.value.subject = "add new feature"

\* The message field of a git log line: its second '|'-separated part.
MessageOfLine(line) ==
    LET parts == SplitOn(line, "|") IN IF Len(parts) >= 2 THEN parts[2] ELSE ""

\* C8: parseCommitLine returns a non-empty type for every line, and a type of
\* the fixed set of 12 for every line whose message is not conventional.
C8_TypeAlwaysResolved ==
    commit.called =>
        /\ commit.value.type # ""
        /\ commit.value.type # Undefined
        /\ Readings(MessageOfLine(commitLine)) = {} =>
              commit.value.type \in DOMAIN COMMIT_TYPES

\* C8 witness: the empty line is parsed and classified chore.
C8_Witness ==
    /\ commit.called
    /\ commitLine = ""
    /\ commit.value.type = "chore"
    /\ commit.value.subject = ""

\* C10: each of the 12 conventional types has its own '{emoji} {Title}'
\* section and every other type is placed in 'Other Changes'.
C10_SectionOfType ==
    sectionKey.called =>
        LET t == commit.value.type
        IN  IF t \in DOMAIN COMMIT_TYPES
            THEN /\ sectionKey.value = COMMIT_TYPES[t].emoji \o " " \o COMMIT_TYPES[t].title
                 /\ sectionKey.value # OtherChanges
                 /\ \A u \in DOMAIN COMMIT_TYPES \ {t} :
                        sectionKey.value # COMMIT_TYPES[u].emoji \o " " \o COMMIT_TYPES[u].title
            ELSE sectionKey.value = OtherChanges

-----------------------------------------------------------------------------
(* determineReleaseType, categorizeCommits and generateChangelogContent *)

\* commit.breaking as a condition: true is truthy, false and undefined are not.
IsBreaking(c) == c.breaking = "true"

\* A plausible slip: the feature check is made before the breaking check.
determineReleaseTypeFeatFirst(cs) ==
    LET hasBreakingChanges == \E i \in 1..Len(cs) : IsBreaking(cs[i])
        hasFeatures == \E i \in 1..Len(cs) : cs[i].type = "feat"
    IN  IF hasFeatures THEN "minor"
        ELSE IF hasBreakingChanges THEN "major"
        ELSE "patch"

determineReleaseType(cs) ==
    LET hasBreakingChanges == \E i \in 1..Len(cs) : IsBreaking(cs[i])
        hasFeatures == \E i \in 1..Len(cs) : cs[i].type = "feat"
    IN  IF hasBreakingChanges THEN "major"
        ELSE IF hasFeatures THEN "minor"
        ELSE "patch"

\* new Date(date).getTime() for a date of git's --date=short form YYYY-MM-DD,
\* as a day count that grows with the date; NaN for any other string.
DateTime(d) ==
    IF /\ Len(d) = 10
       /\ CharAt(d, 5) = "-"
       /\ CharAt(d, 8) = "-"
       /\ AllIn(SubSeq(d, 1, 4) \o SubSeq(d, 6, 7) \o SubSeq(d, 9, 10), Digits)
    THEN Num((DecimalValue(SubSeq(d, 1, 4)) * 12 + DecimalValue(SubSeq(d, 6, 7))) * 31
             + DecimalValue(SubSeq(d, 9, 10)))
    ELSE NaN

\* The comparator of sortCommitsByDate: time(second) - time(first); a NaN
\* result counts as 0 in Array.prototype.sort.
CompareByDate(firstCommit, secondCommit) ==
    LET a == DateTime(firstCommit.date)
        b == DateTime(secondCommit.date)
    IN  IF a.nan \/ b.nan THEN 0 ELSE b.val - a.val

RECURSIVE InsertByDate(_, _)
\* x placed after the last element of the sorted list that must not follow it.
InsertByDate(sorted, x) ==
    IF sorted = <<>> THEN <<x>>
    ELSE IF CompareByDate(sorted[Len(sorted)], x) > 0
         THEN Append(InsertByDate(SubSeq(sorted, 1, Len(sorted) - 1), x), sorted[Len(sorted)])
         ELSE Append(sorted, x)

RECURSIVE sortCommitsByDate(_)
\* Array.prototype.sort with CompareByDate: a stable sort, newest first.
sortCommitsByDate(cs) ==
    IF cs = <<>> THEN <<>>
    ELSE InsertByDate(sortCommitsByDate(SubSeq(cs, 1, Len(cs) - 1)), cs[Len(cs)])

\* The comparator is a consistent comparator for the commits of cs: with a NaN
\* result read as 0, 'equal' and 'before' are transitive. It is one whenever
\* every date is valid.
ConsistentByDate(cs) ==
    LET I == 1..Len(cs)
        cmp == [i \in I |-> [j \in I |-> CompareByDate(cs[i], cs[j])]]
        Cmp(i, j) == cmp[i][j]
    IN  \A i, j, k \in I :
            /\ (Cmp(i, j) = 0 /\ Cmp(j, k) = 0) => Cmp(i, k) = 0
            /\ (Cmp(i, j) < 0 /\ Cmp(j, k) < 0) => Cmp(i, k) < 0
            /\ (Cmp(i, j) = 0 /\ Cmp(j, k) < 0) => Cmp(i, k) < 0
            /\ (Cmp(i, j) < 0 /\ Cmp(j, k) = 0) => Cmp(i, k) < 0

\* The orders Array.prototype.sort may leave cs in: the stable order for a
\* consistent comparator, an implementation-defined order of the same
\* elements otherwise.
SortOutcomes(cs) ==
    IF ConsistentByDate(cs)
    THEN {sortCommitsByDate(cs)}
    ELSE {[i \in 1..Len(cs) |-> cs[p[i]]] :
             p \in {q \in [1..Len(cs) -> 1..Len(cs)] :
                        \A i, j \in 1..Len(cs) : q[i] = q[j] => i = j}}

RECURSIVE SectionKeysPerCommit(_, _)
\* A plausible slip: a section is opened for every commit, whether or not the
\* Map has its key.
SectionKeysPerCommit(cs, seen) ==
    IF cs = <<>> THEN seen
    ELSE SectionKeysPerCommit(Tail(cs), Append(seen, getSectionKey(cs[1].type)))

RECURSIVE SectionKeysOf(_, _)
\* The keys of the sections Map in insertion order: each section key at the
\* place of its first commit.
SectionKeysOf(cs, seen) ==
    IF cs = <<>> THEN seen
    ELSE LET k == getSectionKey(cs[1].type)
         IN  SectionKeysOf(Tail(cs),
                           IF \E i \in 1..Len(seen) : seen[i] = k THEN seen ELSE Append(seen, k))

categorizeCommits(cs) ==
    LET keys == SectionKeysOf(cs, <<>>)
    IN  [i \in 1..Len(keys) |->
            [title |-> keys[i],
             commits |-> sortCommitsByDate(
                            SelectSeq(cs, LAMBDA c : getSectionKey(c.type) = keys[i]))]]

RECURSIVE SectionOutcomes(_, _)
\* The section lists for the keys, each section in an order the sort may
\* leave it in.
SectionOutcomes(cs, keys) ==
    IF keys = <<>> THEN {<<>>}
    ELSE {<<[title |-> keys[1], commits |-> sorted]>> \o rest :
             sorted \in SortOutcomes(SelectSeq(cs, LAMBDA c : getSectionKey(c.type) = keys[1])),
             rest \in SectionOutcomes(cs, Tail(keys))}

\* The results categorizeCommits may return.
CategorizeOutcomes(cs) == SectionOutcomes(cs, SectionKeysOf(cs, <<>>))

\* A string is truthy unless it is empty or undefined.
Truthy(x) == x # "" /\ x # Undefined

RECURSIVE Flatten(_)
Flatten(ss) == IF ss = <<>> THEN <<>> ELSE ss[1] \o Flatten(Tail(ss))

RECURSIVE ConcatAll(_)
\* The concatenation of a sequence of strings.
ConcatAll(ss) == IF ss = <<>> THEN "" ELSE ss[1] \o ConcatAll(Tail(ss))

BreakingHeader == "### :warning: BREAKING CHANGES"

ContributorsHeader == "### :busts_in_silhouette: Contributors"

BreakingBullet(c) ==
    "- **" \o (IF Truthy(c.scope) THEN c.scope \o ": " ELSE "") \o c.subject
        \o "** (" \o c.hash \o ")\n"

generateBreakingChangesSection(secs) ==
    LET breakingChanges ==
            Flatten([i \in 1..Len(secs) |-> SelectSeq(secs[i].commits, IsBreaking)])
    IN  IF breakingChanges = <<>> THEN ""
        ELSE BreakingHeader \o "\n\n"
             \o ConcatAll([i \in 1..Len(breakingChanges) |-> BreakingBullet(breakingChanges[i])])
             \o "\n"

SectionBullet(c) ==
    "- " \o (IF Truthy(c.scope) THEN "**" \o c.scope \o ":** " ELSE "") \o c.subject
        \o " (" \o c.hash \o ")\n"

generateSectionContent(section) ==
    IF section.commits = <<>> THEN ""
    ELSE "### " \o section.title \o "\n\n"
         \o ConcatAll([i \in 1..Len(section.commits) |-> SectionBullet(section.commits[i])])
         \o "\n"

RECURSIVE Dedup(_, _)
\* new Set(list): the distinct elements in order of first occurrence.
Dedup(xs, seen) ==
    IF xs = <<>> THEN seen
    ELSE Dedup(Tail(xs),
               IF \E i \in 1..Len(seen) : seen[i] = xs[1] THEN seen ELSE Append(seen, xs[1]))

RECURSIVE JoinWith(_, _)
\* Array.prototype.join(sep)
JoinWith(xs, sep) ==
    IF xs = <<>> THEN ""
    ELSE IF Len(xs) = 1 THEN xs[1]
    ELSE xs[1] \o sep \o JoinWith(Tail(xs), sep)

generateContributorsSection(secs) ==
    LET contributors ==
            Dedup(Flatten([i \in 1..Len(secs) |->
                      [j \in 1..Len(secs[i].commits) |-> secs[i].commits[j].author]]), <<>>)
    IN  IF contributors = <<>> THEN ""
        ELSE ContributorsHeader \o "\n\n"
             \o "Thanks to " \o JoinWith(contributors, ", ")
             \o " for contributing to this release!\n\n"

\* String.prototype.toUpperCase for the three release types.
UpperReleaseType(t) ==
    CASE t = "major" -> "MAJOR" [] t = "minor" -> "MINOR" [] t = "patch" -> "PATCH"

ChangelogHeader(releaseInfo) ==
    "## [" \o releaseInfo.version \o "] - " \o releaseInfo.date
        \o " (" \o UpperReleaseType(releaseInfo.type) \o " RELEASE)"

\* A plausible slip: the breaking changes block is added after the sections.
generateChangelogContentBreakingLast(releaseInfo) ==
    ChangelogHeader(releaseInfo) \o "\n\n"
        \o ConcatAll([i \in 1..Len(releaseInfo.sections) |->
                         generateSectionContent(releaseInfo.sections[i])])
        \o generateBreakingChangesSection(releaseInfo.sections)
        \o generateContributorsSection(releaseInfo.sections)

generateChangelogContent(releaseInfo) ==
    ChangelogHeader(releaseInfo) \o "\n\n"
        \o generateBreakingChangesSection(releaseInfo.sections)
        \o ConcatAll([i \in 1..Len(releaseInfo.sections) |->
                         generateSectionContent(releaseInfo.sections[i])])
        \o generateContributorsSection(releaseInfo.sections)

-----------------------------------------------------------------------------
(* The resolver and the renderer on their own: every list of up to          *)
(* MaxCommits commits of the pool, then determineReleaseType,               *)
(* categorizeCommits and generateChangelogContent as generateChangelog      *)
(* chains them.                                                             *)

\* The longest commit list.
MaxCommits == 3

\* The commits of the pool, as parseCommitLine reads them from git log lines:
\* breaking and plain features and fixes, with and without scope, a free-form
\* message, an unrecognized type and a chore, on three dates by three authors,
\* and a fix whose subject holds a '|', so that its date field is the author.
CommitPool ==
    {parseCommitLine(l) : l \in
        {"a1a1a1a1a1|feat(api)!: drop v1|ann|2024-01-02",
         "b2b2b2b2|feat: add x|bob|2024-01-03",
         "c3c3c3c3|fix!: y|ann|2024-01-03",
         "d4d4d4d4|fix(ui): w|cy|2024-01-02",
         "e5e5e5e5|add z|bob|2024-01-01",
         "f6f6f6f6|zzz!: q|cy|2024-01-02",
         "g7g7g7g7|chore: c|ann|2024-01-01",
         "h8h8h8h8|fix: p|q|cy|2024-01-04"}}

CommitLists == UNION {[1..n -> CommitPool] : n \in 0..MaxCommits}

\* The version in package.json and the date of the run.
PackageVersion == "1.9.9"

Today == "2025-06-28"

InitChangelog ==
    /\ commits \in CommitLists
    /\ resolvedType = NotCalled
    /\ sections = NotCalled
    /\ content = NotCalled
    /\ IdleVersion
    /\ IdleParse
    /\ IdleRelease
    /\ IdleTools

CallDetermineReleaseType ==
    /\ ~resolvedType.called
    /\ resolvedType' = Returned(determineReleaseType(commits))
    /\ UNCHANGED <<commits, sections, content, versionVars, parseVars, releaseVars, toolVars>>

CallCategorizeCommits ==
    /\ ~sections.called
    /\ \E result \in CategorizeOutcomes(commits) : sections' = Returned(result)
    /\ UNCHANGED <<commits, resolvedType, content, versionVars, parseVars, releaseVars, toolVars>>

CallGenerateChangelogContent ==
    /\ resolvedType.called
    /\ sections.called
    /\ ~content.called
    /\ content' = Returned(generateChangelogContent(
                      [version |-> getNextVersion(PackageVersion, resolvedType.value),
                       date |-> Today,
                       type |-> resolvedType.value,
                       sections |-> sections.value]))
    /\ UNCHANGED <<commits, resolvedType, sections, versionVars, parseVars, releaseVars, toolVars>>

NextChangelog ==
    CallDetermineReleaseType \/ CallCategorizeCommits \/ CallGenerateChangelogContent

SpecChangelog == InitChangelog /\ [][NextChangelog]_vars

-----------------------------------------------------------------------------
(* Claims about the resolver and the renderer *)

\* The orderings of a list: the list read through every permutation of its indices.
Orderings(cs) ==
    {[i \in 1..Len(cs) |-> cs[p[i]]] :
        p \in {q \in [1..Len(cs) -> 1..Len(cs)] : \A i, j \in 1..Len(cs) : q[i] = q[j] => i = j}}

\* C1: determineReleaseType is major if any commit is breaking, else minor if
\* any commit has type feat, else patch (also for the empty list), and is the
\* same for every ordering of the commits.
C1_ReleaseTypeByPriority ==
    resolvedType.called =>
        LET anyBreaking == \E i \in DOMAIN commits : commits[i].breaking = "true"
            anyFeat == \E i \in DOMAIN commits : commits[i].type = "feat"
        IN  /\ anyBreaking => resolvedType.value = "major"
            /\ (~anyBreaking /\ anyFeat) => resolvedType.value = "minor"
            /\ (~anyBreaking /\ ~anyFeat) => resolvedType.value = "patch"
            /\ \A o \in Orderings(commits) : determineReleaseType(o) = resolvedType.value

\* C1 witness: a plain feature followed by a breaking fix resolves to major.
C1_Witness ==
    /\ resolvedType.called
    /\ Len(commits) = 2
    /\ commits[1].type = "feat" /\ commits[1].breaking = "false"
    /\ commits[2].type = "fix" /\ commits[2].breaking = "true"
    /\ resolvedType.value = "major"

\* The lines of the rendered changelog.
LinesOfContent == SplitOn(content.value, "\n")

\* The bullets under the header at line h: the lines from h + 2 up to the next empty line.
RECURSIVE BulletsFrom(_, _)
BulletsFrom(lines, i) ==
    IF i > Len(lines) \/ lines[i] = "" THEN <<>>
    ELSE <<lines[i]>> \o BulletsFrom(lines, i + 1)

\* The breaking commits of the sections, in section order and, within a
\* section, in the order of its commit list.
BreakingInOrder(secs) ==
    LET pairs == UNION {{<<i, j>> : j \in {k \in 1..Len(secs[i].commits) :
                                                secs[i].commits[k].breaking = "true"}} :
                        i \in 1..Len(secs)}
        Before(a, b) == a[1] < b[1] \/ (a[1] = b[1] /\ a[2] < b[2])
        Rank(a) == Cardinality({b \in pairs : Before(b, a)}) + 1
    IN  [k \in 1..Cardinality(pairs) |->
            LET a == CHOOSE a \in pairs : Rank(a) = k IN secs[a[1]].commits[a[2]]]

\* C9: when some commit is breaking, the BREAKING CHANGES block follows the
\* header line, precedes every type section and lists exactly the breaking
\* commits in section/commit order; when none is, the block is absent.
C9_BreakingBlockFirst ==
    content.called =>
        LET lines == LinesOfContent
            blocks == {i \in 1..Len(lines) : lines[i] = BreakingHeader}
            heads == {i \in 1..Len(lines) :
                         \E k \in 1..Len(sections.value) :
                             lines[i] = "### " \o sections.value[k].title}
            breaking == BreakingInOrder(sections.value)
        IN  IF breaking = <<>>
            THEN blocks = {}
            ELSE /\ blocks = {3}
                 /\ SubSeq(lines[1], 1, 4) = "## ["
                 /\ lines[2] = ""
                 /\ \A h \in heads : h > 3
                 /\ BulletsFrom(lines, 5) =
                        [k \in 1..Len(breaking) |->
                            "- **"
                            \o (IF breaking[k].scope \notin {"", Undefined}
                                THEN breaking[k].scope \o ": " ELSE "")
                            \o breaking[k].subject \o "** (" \o breaking[k].hash \o ")"]
                 /\ \A h \in heads : h > 5 + Len(breaking)

\* C9 witness: two breaking commits of different sections, a feature section
\* rendered after the block.
C9_Witness ==
    /\ content.called
    /\ Len(sections.value) >= 2
    /\ Len(BreakingInOrder(sections.value)) = 2
    /\ \E i \in 1..Len(LinesOfContent) : LinesOfContent[i] = "### :sparkles: Features"
    /\ LinesOfContent[3] = BreakingHeader

\* The commits of a section are newest first: of two commits with valid
\* dates the earlier one in the list is not the older one.
NewestFirst(cs) ==
    \A i, j \in 1..Len(cs) :
        (i < j /\ ~DateTime(cs[i].date).nan /\ ~DateTime(cs[j].date).nan)
            => DateTime(cs[i].date).val >= DateTime(cs[j].date).val

\* The commits of a section that share a date are in the order they have in
\* the input list.
InputOrderWithinDate(section, input) ==
    \A d \in {section.commits[i].date : i \in 1..Len(section.commits)} :
        SelectSeq(section.commits, LAMBDA c : c.date = d)
            = SelectSeq(input, LAMBDA c : c.date = d /\ getSectionKey(c.type) = section.title)

\* C11: in every section categorizeCommits returns, the commits are ordered by
\* date descending, and commits that share a date keep the relative order
\* they have in the input list.
C11_SectionsNewestFirstStable ==
    sections.called =>
        \A k \in 1..Len(sections.value) :
            /\ NewestFirst(sections.value[k].commits)
            /\ InputOrderWithinDate(sections.value[k], commits)

\* The same, for input lists in which every date is a valid date.
SectionsNewestFirstForValidDates ==
    (\A i \in 1..Len(commits) : ~DateTime(commits[i].date).nan)
        => C11_SectionsNewestFirstStable

-----------------------------------------------------------------------------
(* generateChangelog and createRelease over the files, the repository, the  *)
(* remote and the registries                                                *)

RECURSIVE Reverse(_)
Reverse(xs) == IF xs = <<>> THEN <<>> ELSE Append(Reverse(Tail(xs)), xs[1])

\* git describe --tags --abbrev=0: the number of commits the latest tag
\* covers; 0 when there is no tag (the command fails and the catch branch
\* logs the whole history).
LastTagPosition(tagSet) ==
    IF tagSet = {} THEN 0
    ELSE CHOOSE n \in {t.pos : t \in tagSet} : \A t \in tagSet : t.pos <= n

\* getCommitsFromGitLog: the output of git log, newest commit first, trimmed,
\* split into lines and parsed; no commit when the output is empty.
getCommitsSinceLastTag(lines, tagSet) ==
    LET range == SubSeq(lines, LastTagPosition(tagSet) + 1, Len(lines))
        output == Trim(JoinWith(Reverse(range), "\n"))
        commitLines == SplitOn(output, "\n")
    IN  IF output = "" THEN <<>>
        ELSE [i \in 1..Len(commitLines) |-> parseCommitLine(commitLines[i])]

DefaultChangelogHeader ==
    "# Changelog\n\nAll notable changes to this project will be documented in this file.\n\n"

\* A plausible slip: the file is rewritten with the new entry alone.
updateChangelogFileOverwrite(existing, changelogContent) == changelogContent

\* updateChangelogFile: the text written to CHANGELOG.md.
updateChangelogFile(existing, changelogContent) ==
    LET existingContent == IF existing # NoFile THEN existing ELSE DefaultChangelogHeader
    IN  existingContent \o changelogContent

\* The ReleaseInfo generateChangelog builds from a non-empty commit list.
ReleaseInfoWith(type, cs, version) ==
    [version |-> getNextVersion(version, type),
     date |-> Today,
     type |-> type,
     sections |-> categorizeCommits(cs)]

ReleaseInfoOf(cs, version) == ReleaseInfoWith(determineReleaseType(cs), cs, version)

\* A plausible slip: the preview also writes the entry to CHANGELOG.md.
ShowAndWrite(preview, file, version, releaseInfo) ==
    [file |-> updateChangelogFile(file, generateChangelogContent(releaseInfo)),
     console |-> IF preview
                 THEN [kind |-> "preview",
                       content |-> generateChangelogContent(releaseInfo),
                       type |-> releaseInfo.type,
                       current |-> version,
                       version |-> releaseInfo.version]
                 ELSE [kind |-> "updated",
                       type |-> releaseInfo.type,
                       version |-> releaseInfo.version]]

\* generateChangelog past the commit check: displayPreview or
\* updateChangelogFile with the rendered entry.
ShowOrWrite(preview, file, version, releaseInfo) ==
    IF preview
    THEN [file |-> file,
          console |-> [kind |-> "preview",
                       content |-> generateChangelogContent(releaseInfo),
                       type |-> releaseInfo.type,
                       current |-> version,
                       version |-> releaseInfo.version]]
    ELSE [file |-> updateChangelogFile(file, generateChangelogContent(releaseInfo)),
          console |-> [kind |-> "updated",
                       type |-> releaseInfo.type,
                       version |-> releaseInfo.version]]

\* A plausible slip: the check for an empty commit list is missing.
generateChangelogFromUnchecked(cs, preview, file, version) ==
    ShowOrWrite(preview, file, version, ReleaseInfoOf(cs, version))

\* generateChangelog with the commits it read: nothing is written or shown
\* when there is none.
generateChangelogFrom(cs, preview, file, version) ==
    IF cs = <<>>
    THEN [file |-> file, console |-> [kind |-> "no commits"]]
    ELSE ShowOrWrite(preview, file, version, ReleaseInfoOf(cs, version))

\* generateChangelog({preview}): the text of CHANGELOG.md after the call and
\* what the call displays.
generateChangelog(preview, file, version, lines, tagSet) ==
    generateChangelogFrom(getCommitsSinceLastTag(lines, tagSet), preview, file, version)

\* String.prototype.startsWith
StartsWith(str, prefix) ==
    Len(str) >= Len(prefix) /\ SubSeq(str, 1, Len(prefix)) = prefix

\* extractReleaseNotes: the last line that starts with '## [', or ''.
extractReleaseNotes(changelog) ==
    LET matching == SelectSeq(SplitOn(changelog, "\n"), LAMBDA l : StartsWith(l, "## ["))
    IN  IF matching = <<>> THEN "" ELSE matching[Len(matching)]

\* The git log line of the commit 'chore: release v{version}'.
ReleaseCommitLine(version) == "9e1ea5e0|chore: release v" \o version \o "|ann|" \o Today

ReleaseResult(version, releaseNotes) ==
    [success |-> TRUE, version |-> version, tag |-> "v" \o version, changelog |-> releaseNotes]

-----------------------------------------------------------------------------
(* The commands *)

\* The most commands run.
MaxRuns == 2

\* The commit the developer makes between commands.
DevLine == "c3c3c3c3|fix!: y|ann|2024-01-03"

InitialCommitLine == "00000000|chore: init|ann|2024-01-01"

\* A changelog written by an earlier release.
EarlierChangelog ==
    DefaultChangelogHeader
        \o "## [1.9.9] - 2025-06-01 (PATCH RELEASE)\n\n### :bug: Bug Fixes\n\n- old (0a0a0a0a)\n\n"

\* A repository with one commit, tagged v1.9.9 or not tagged at all, a clean
\* working directory, and CHANGELOG.md absent or left by the earlier release.
InitRelease ==
    /\ changelogFile \in {NoFile, EarlierChangelog}
    /\ packageVersion = PackageVersion
    /\ history = <<InitialCommitLine>>
    /\ tags \in {{}, {[name |-> "v" \o PackageVersion, pos |-> 1]}}
    /\ uncommitted = {}
    /\ remote = [commits |-> 1, tags |-> {t.name : t \in tags}]
    /\ npmPublished = {}
    /\ ghReleases = {}
    /\ release = [pc |-> "idle"]
    /\ console = [kind |-> "nothing"]
    /\ runs = 0
    /\ atStart = <<>>
    /\ IdleVersion
    /\ IdleParse
    /\ IdleChangelog
    /\ IdleTools

otherVars == <<versionVars, parseVars, changelogVars, toolVars>>

\* No createRelease call is under way.
NoReleaseRunning == release.pc \in {"idle", "done", "failed", "exited"}

CanRun == NoReleaseRunning /\ runs < MaxRuns

\* The developer commits their work.
DevCommit ==
    /\ NoReleaseRunning
    /\ \A k \in 1..Len(history) : history[k] # DevLine
    /\ history' = Append(history, DevLine)
    /\ uncommitted' = {}
    /\ UNCHANGED <<changelogFile, packageVersion, tags, remote, npmPublished, ghReleases,
                   release, console, runs, atStart, otherVars>>

\* The developer edits a file and leaves the change uncommitted.
DevEdit ==
    /\ NoReleaseRunning
    /\ "src" \notin uncommitted
    /\ uncommitted' = uncommitted \cup {"src"}
    /\ UNCHANGED <<changelogFile, packageVersion, history, tags, remote, npmPublished,
                   ghReleases, release, console, runs, atStart, otherVars>>

\* The files that differ from HEAD once CHANGELOG.md holds newFile.
AfterWriting(newFile) ==
    IF newFile = changelogFile THEN uncommitted ELSE uncommitted \cup {"CHANGELOG.md"}

\* bumper preview: generateChangelog({ preview: true })
handlePreview ==
    /\ CanRun
    /\ runs' = runs + 1
    /\ UNCHANGED <<packageVersion, history, tags, remote, npmPublished, ghReleases,
                   release, atStart, otherVars>>
    /\ \E out \in {generateChangelog(TRUE, changelogFile, packageVersion, history, tags)} :
          /\ changelogFile' = out.file
          /\ uncommitted' = AfterWriting(out.file)
          /\ console' = out.console

\* bumper generate: generateChangelog({ preview: false })
handleGenerate ==
    /\ CanRun
    /\ runs' = runs + 1
    /\ UNCHANGED <<packageVersion, history, tags, remote, npmPublished, ghReleases,
                   release, atStart, otherVars>>
    /\ \E out \in {generateChangelog(FALSE, changelogFile, packageVersion, history, tags)} :
          /\ changelogFile' = out.file
          /\ uncommitted' = AfterWriting(out.file)
          /\ console' = out.console

\* A plausible slip: the working directory is not checked.
ReleaseStartUnvalidated ==
    /\ CanRun
    /\ \E type \in ReleaseTypes, dryRun \in BOOLEAN :
          /\ runs' = runs + 1
          /\ release' = [pc |-> "changelog", type |-> type, dryRun |-> dryRun,
                         nextVersion |-> getNextVersion(packageVersion, type)]
    /\ atStart' = persistentVars
    /\ UNCHANGED <<persistentVars, console, otherVars>>

\* createRelease up to the changelog: validateGitStatus unless dryRun (exit 1
\* when the working directory is not clean), then the next version.
ReleaseStart ==
    /\ CanRun
    /\ \E type \in ReleaseTypes, dryRun \in BOOLEAN :
          /\ runs' = runs + 1
          /\ release' =
                IF ~dryRun /\ uncommitted # {}
                THEN [pc |-> "exited", type |-> type, dryRun |-> dryRun, exitCode |-> 1]
                ELSE [pc |-> "changelog", type |-> type, dryRun |-> dryRun,
                      nextVersion |-> getNextVersion(packageVersion, type)]
    /\ atStart' = persistentVars
    /\ UNCHANGED <<persistentVars, console, otherVars>>

\* A step of the release ends the call with the error it threw.
Thrown(step) ==
    [pc |-> "failed", type |-> release.type, dryRun |-> release.dryRun, failedAt |-> step]

\* The call once the release notes are read: a dry run returns its result,
\* a release goes on to the git operations.
AfterChangelog(releaseNotes) ==
    IF release.dryRun
    THEN [pc |-> "done", type |-> release.type, dryRun |-> TRUE,
          nextVersion |-> release.nextVersion, releaseNotes |-> releaseNotes,
          result |-> ReleaseResult(release.nextVersion, releaseNotes)]
    ELSE [pc |-> "package", type |-> release.type, dryRun |-> FALSE,
          nextVersion |-> release.nextVersion, releaseNotes |-> releaseNotes]

\* await generateChangelog({ preview: false }), readFileSync(CHANGELOG.md),
\* extractReleaseNotes, and the return of a dry run.
ReleaseChangelog ==
    /\ release.pc = "changelog"
    /\ \E out \in {generateChangelog(FALSE, changelogFile, packageVersion, history, tags)} :
          /\ changelogFile' = out.file
          /\ uncommitted' = AfterWriting(out.file)
          /\ console' = out.console
          /\ release' =
                IF out.file = NoFile
                THEN Thrown("readFileSync")
                ELSE \* the release notes, and the return of a dry run
                     AfterChangelog(extractReleaseNotes(out.file))
    /\ UNCHANGED <<packageVersion, history, tags, remote, npmPublished, ghReleases,
                   runs, atStart, otherVars>>

\* performGitOperations: updatePackageVersion
ReleasePackage ==
    /\ release.pc = "package"
    /\ packageVersion' = release.nextVersion
    /\ uncommitted' = uncommitted \cup {"package.json"}
    /\ release' = [release EXCEPT !.pc = "commit"]
    /\ UNCHANGED <<changelogFile, history, tags, remote, npmPublished, ghReleases,
                   console, runs, atStart, otherVars>>

\* performGitOperations: git add . and git commit -m "chore: release v...";
\* git commit can fail (a hook rejects the commit, no identity is configured).
ReleaseCommit ==
    /\ release.pc = "commit"
    /\ \E committed \in BOOLEAN :
          IF committed
          THEN /\ history' = Append(history, ReleaseCommitLine(release.nextVersion))
               /\ uncommitted' = {}
               /\ release' = [release EXCEPT !.pc = "tag"]
          ELSE /\ UNCHANGED <<history, uncommitted>>
               /\ release' = Thrown("commit")
    /\ UNCHANGED <<changelogFile, packageVersion, tags, remote, npmPublished, ghReleases,
                   console, runs, atStart, otherVars>>

\* createGitTag: git tag -a fails when the tag already exists, and can fail
\* otherwise.
ReleaseTag ==
    /\ release.pc = "tag"
    /\ LET name == "v" \o release.nextVersion
       IN  \E created \in IF name \in {t.name : t \in tags} THEN {FALSE} ELSE BOOLEAN :
              IF created
              THEN /\ release' = [release EXCEPT !.pc = "push"]
                   /\ tags' = tags \cup {[name |-> name, pos |-> Len(history)]}
              ELSE /\ release' = Thrown("tag")
                   /\ tags' = tags
    /\ UNCHANGED <<changelogFile, packageVersion, history, uncommitted, remote, npmPublished,
                   ghReleases, console, runs, atStart, otherVars>>

\* A plausible slip: the release goes on to npm publish when the push failed.
ReleasePushUnchecked ==
    /\ release.pc = "push"
    /\ \E outcome \in {"push failed", "tag push failed", "pushed"} :
          /\ remote' =
                [commits |-> IF outcome = "push failed" THEN remote.commits ELSE Len(history),
                 tags |-> IF outcome = "pushed"
                          THEN remote.tags \cup {"v" \o release.nextVersion}
                          ELSE remote.tags]
          /\ release' = [release EXCEPT !.pc = "publish"]
    /\ UNCHANGED <<changelogFile, packageVersion, history, tags, uncommitted, npmPublished,
                   ghReleases, console, runs, atStart, otherVars>>

\* pushToRemote: git push, then git push origin v...; either can fail.
ReleasePush ==
    /\ release.pc = "push"
    /\ \E outcome \in {"push failed", "tag push failed", "pushed"} :
          /\ remote' =
                [commits |-> IF outcome = "push failed" THEN remote.commits ELSE Len(history),
                 tags |-> IF outcome = "pushed"
                          THEN remote.tags \cup {"v" \o release.nextVersion}
                          ELSE remote.tags]
          /\ release' = IF outcome = "pushed"
                        THEN [release EXCEPT !.pc = "publish"]
                        ELSE Thrown("push")
    /\ UNCHANGED <<changelogFile, packageVersion, history, tags, uncommitted, npmPublished,
                   ghReleases, console, runs, atStart, otherVars>>

\* publishToNpm: npm publish publishes the version of package.json, or fails.
ReleasePublish ==
    /\ release.pc = "publish"
    /\ \E published \in BOOLEAN :
          /\ npmPublished' = IF published THEN npmPublished \cup {packageVersion}
                             ELSE npmPublished
          /\ release' = IF published THEN [release EXCEPT !.pc = "github"]
                        ELSE Thrown("publish")
    /\ UNCHANGED <<changelogFile, packageVersion, history, tags, uncommitted, remote,
                   ghReleases, console, runs, atStart, otherVars>>

\* createGitHubRelease and the return of createRelease: a missing or failing
\* GitHub CLI is reported and the release still succeeds.
ReleaseGitHub ==
    /\ release.pc = "github"
    /\ \E created \in BOOLEAN :
          ghReleases' =
             IF created
             THEN ghReleases \cup {[tag |-> "v" \o release.nextVersion,
                                    notes |-> extractReleaseNotes(release.releaseNotes)]}
             ELSE ghReleases
    /\ release' = [pc |-> "done", type |-> release.type, dryRun |-> FALSE,
                   nextVersion |-> release.nextVersion, releaseNotes |-> release.releaseNotes,
                   result |-> ReleaseResult(release.nextVersion, release.releaseNotes)]
    /\ UNCHANGED <<changelogFile, packageVersion, history, tags, uncommitted, remote,
                   npmPublished, console, runs, atStart, otherVars>>

NextRelease ==
    \/ DevCommit
    \/ DevEdit
    \/ handlePreview
    \/ handleGenerate
    \/ ReleaseStart
    \/ ReleaseChangelog
    \/ ReleasePackage
    \/ ReleaseCommit
    \/ ReleaseTag
    \/ ReleasePush
    \/ ReleasePublish
    \/ ReleaseGitHub

SpecRelease == InitRelease /\ [][NextRelease]_vars

-----------------------------------------------------------------------------
(* Claims about the commands *)

\* C4: when createRelease({dryRun: true}) has returned, CHANGELOG.md,
\* package.json, the git history and tags, the remote, the npm registry and
\* the GitHub releases are exactly as they were before the call.
C4_DryRunChangesNothing ==
    (release.pc = "done" /\ release.dryRun)
        => <<changelogFile, packageVersion, history, tags, remote, npmPublished, ghReleases>>
              = <<atStart[1], atStart[2], atStart[3], atStart[4], atStart[6], atStart[7],
                  atStart[8]>>

\* The number of release entries in a changelog text.
EntryCount(text) ==
    IF text = NoFile THEN 0
    ELSE Len(SelectSeq(SplitOn(text, "\n"), LAMBDA l : StartsWith(l, "## [")))

\* The entry a run renders from the commits since the last tag.
RenderedEntry(lines, tagSet, version) ==
    generateChangelogContent(ReleaseInfoOf(getCommitsSinceLastTag(lines, tagSet), version))

PreviousContent(file) == IF file = NoFile THEN DefaultChangelogHeader ELSE file

\* A step in which generateChangelog({ preview: false }) runs.
NonPreviewRun == handleGenerate \/ ReleaseChangelog

\* C5: every non-preview generateChangelog run that finds at least one commit
\* writes the previous content of the file (the default header when there was
\* no file) followed by the newly rendered entry: the previous content is a
\* prefix of the new content and the file has one entry more than before,
\* whether or not the same commits were rendered already.
C5_ChangelogAppendOnly ==
    [][(NonPreviewRun /\ getCommitsSinceLastTag(history, tags) # <<>>)
          => /\ changelogFile'
                   = PreviousContent(changelogFile)
                        \o RenderedEntry(history, tags, packageVersion)
             /\ StartsWith(changelogFile', PreviousContent(changelogFile))
             /\ EntryCount(changelogFile') = EntryCount(changelogFile) + 1]_vars

\* Two commands have run in a repository that had no changelog, neither of
\* them a release; both were bumper generate over the same commits, and the
\* file holds the same entry twice.
C5_Witness ==
    /\ runs = 2
    /\ release.pc = "idle"
    /\ console.kind = "updated"
    /\ EntryCount(changelogFile) = 2
    /\ changelogFile
          = DefaultChangelogHeader
               \o RenderedEntry(history, tags, packageVersion)
               \o RenderedEntry(history, tags, packageVersion)

\* A step in which generateChangelog runs, as a preview or not.
ChangelogRun == handlePreview \/ handleGenerate \/ ReleaseChangelog

\* The text rendered for a release of the given type with no section at all.
EmptyRendering(type) ==
    generateChangelogContent([version |-> getNextVersion(packageVersion, type),
                              date |-> Today,
                              type |-> type,
                              sections |-> <<>>])

\* C12: a generateChangelog run that finds no commit since the last tag
\* leaves CHANGELOG.md as it is (absent, if it was absent) and reports that
\* there is no commit; and the rendering of a ReleaseInfo with no section is
\* the header line alone, followed by an empty line.
C12_EmptyRangeIsEmptyResult ==
    [][/\ (ChangelogRun /\ getCommitsSinceLastTag(history, tags) = <<>>)
             => /\ changelogFile' = changelogFile
                /\ console' = [kind |-> "no commits"]
       /\ EmptyRendering("major")
             = "## [" \o getNextVersion(packageVersion, "major") \o "] - " \o Today
                  \o " (MAJOR RELEASE)\n\n"
       /\ EmptyRendering("minor")
             = "## [" \o getNextVersion(packageVersion, "minor") \o "] - " \o Today
                  \o " (MINOR RELEASE)\n\n"
       /\ EmptyRendering("patch")
             = "## [" \o getNextVersion(packageVersion, "patch") \o "] - " \o Today
                  \o " (PATCH RELEASE)\n\n"]_vars

\* bumper generate has run in a repository whose last tag is on HEAD and that
\* has no changelog: it found no commit and CHANGELOG.md is still absent.
C12_Witness ==
    /\ runs = 1
    /\ release.pc = "idle"
    /\ console = [kind |-> "no commits"]
    /\ getCommitsSinceLastTag(history, tags) = <<>>
    /\ changelogFile = NoFile
    /\ uncommitted = {}

-----------------------------------------------------------------------------
(* commitFormatter.ts: cleanMessage, suggestCommitType, suggestScope,       *)
(* formatCommitMessage, parseConventionalCommit and suggestCommitFormat     *)

RECURSIVE IncludesFrom(_, _, _)
\* sub occurs in str at some position at or after i.
IncludesFrom(str, sub, i) ==
    IF i + Len(sub) - 1 > Len(str) THEN FALSE
    ELSE IF SubSeq(str, i, i + Len(sub) - 1) = sub THEN TRUE
    ELSE IncludesFrom(str, sub, i + 1)

\* String.prototype.includes
Includes(str, sub) == IncludesFrom(str, sub, 1)

\* String.prototype.endsWith
EndsWith(str, suffix) ==
    Len(str) >= Len(suffix) /\ SubSeq(str, Len(str) - Len(suffix) + 1, Len(str)) = suffix

\* The upper-case letter of each lower-case letter.
UpperOf == [c \in CharsOf(LowerLetters) |-> CharAt(UpperLetters, IndexIn(LowerLetters, c, 1))]

ToUpperChar(c) == IF c \in DOMAIN UpperOf THEN UpperOf[c] ELSE c

\* str.charAt(0).toUpperCase() + str.slice(1)
CapitalizeFirst(str) == IF str = "" THEN "" ELSE ToUpperChar(Head(str)) \o Tail(str)

\* A plausible slip: the first letter is capitalized and the rest keeps its case.
cleanMessageKeepCase(m) ==
    LET trimmed == Trim(m)
        clean == IF EndsWith(trimmed, ".") THEN SubSeq(trimmed, 1, Len(trimmed) - 1) ELSE trimmed
    IN  CapitalizeFirst(clean)

\* cleanMessage: trim, one trailing period removed, all lowercase, first
\* letter capitalized.
cleanMessage(m) ==
    LET trimmed == Trim(m)
        clean == IF EndsWith(trimmed, ".") THEN SubSeq(trimmed, 1, Len(trimmed) - 1) ELSE trimmed
    IN  CapitalizeFirst(ToLowerCase(clean))

\* Object.entries(TYPE_KEYWORDS), in the order of the object literal.
TYPE_KEYWORDS ==
    <<[type |-> "feat",
       keywords |-> {"add", "new", "create", "implement", "introduce", "support", "enable",
                     "allow"}],
      [type |-> "fix",
       keywords |-> {"fix", "resolve", "repair", "correct", "solve", "patch", "bug", "issue",
                     "error"}],
      [type |-> "docs",
       keywords |-> {"document", "readme", "docs", "comment", "example", "guide", "tutorial"}],
      [type |-> "style",
       keywords |-> {"style", "format", "indent", "whitespace", "prettier", "eslint"}],
      [type |-> "refactor",
       keywords |-> {"refactor", "restructure", "reorganize", "cleanup", "simplify", "extract"}],
      [type |-> "perf",
       keywords |-> {"performance", "optimize", "speed", "fast", "slow", "cache"}],
      [type |-> "test",
       keywords |-> {"test", "spec", "coverage", "mock", "stub", "fixture"}],
      [type |-> "build",
       keywords |-> {"build", "compile", "bundle", "webpack", "rollup", "dependencies"}],
      [type |-> "ci",
       keywords |-> {"ci", "github", "actions", "workflow", "pipeline", "deploy"}],
      [type |-> "chore",
       keywords |-> {"chore", "maintenance", "update", "upgrade", "bump", "version"}],
      [type |-> "revert",
       keywords |-> {"revert", "undo", "rollback", "backout"}],
      [type |-> "security",
       keywords |-> {"security", "vulnerability", "cve", "auth", "permission", "access"}]>>

\* A plausible slip: a keyword counts only when it is the whole first word.
suggestCommitTypeFirstWord(m) ==
    LET matching == {i \in 1..Len(TYPE_KEYWORDS) : firstWordOf(m) \in TYPE_KEYWORDS[i].keywords}
    IN  IF matching = {} THEN "chore"
        ELSE TYPE_KEYWORDS[CHOOSE i \in matching : \A j \in matching : i <= j].type

\* suggestCommitType: the first type of the table one of whose keywords
\* occurs in the lowercased message, 'chore' when there is none.
suggestCommitType(m) ==
    LET lowerMessage == ToLowerCase(m)
        matching == {i \in 1..Len(TYPE_KEYWORDS) :
                        \E keyword \in TYPE_KEYWORDS[i].keywords : Includes(lowerMessage, keyword)}
    IN  IF matching = {} THEN "chore"
        ELSE TYPE_KEYWORDS[CHOOSE i \in matching : \A j \in matching : i <= j].type

COMMON_SCOPES ==
    <<"auth", "api", "ui", "cli", "docs", "test", "build", "ci", "deps", "config", "types",
      "utils", "core", "server", "client", "database", "cache", "logging", "monitoring",
      "security">>

RECURSIVE ParenMatchFrom(_, _)
\* message.match(/\(([^)]+)\)/) from position i on: the position of the first
\* '(' that is followed by one or more characters other than ')' and then a
\* ')', 0 when there is none.
ParenMatchFrom(m, i) ==
    IF i > Len(m) THEN 0
    ELSE IF /\ CharAt(m, i) = "("
            /\ SpanLen(m, i + 1, CharsOf(m) \ {")"}) > 0
            /\ At(m, i + 1 + SpanLen(m, i + 1, CharsOf(m) \ {")"})) = ")"
         THEN i
         ELSE ParenMatchFrom(m, i + 1)

\* new RegExp(`\\b${word}\\b`, 'i').test(str) for a word of letters.
HasWholeWord(str, word) ==
    \E i \in 1..(Len(str) - Len(word) + 1) :
        /\ At(str, i - 1) \notin WordChars
        /\ At(str, i + Len(word)) \notin WordChars
        /\ ToLowerCase(SubSeq(str, i, i + Len(word) - 1)) = word

\* A plausible slip: a scope word counts wherever it occurs, inside a longer
\* word too.
suggestScopeSubstring(m) ==
    LET lowerMessage == ToLowerCase(m)
        open == ParenMatchFrom(m, 1)
        found == {i \in 1..Len(COMMON_SCOPES) : Includes(lowerMessage, COMMON_SCOPES[i])}
    IN  IF open > 0
        THEN SubSeq(m, open + 1, open + SpanLen(m, open + 1, CharsOf(m) \ {")"}))
        ELSE IF found = {} THEN Undefined
        ELSE COMMON_SCOPES[CHOOSE i \in found : \A j \in found : i <= j]

\* suggestScope: the content of the first '(...)', else the first common
\* scope that is a whole word of the message, else undefined.
suggestScope(m) ==
    LET lowerMessage == ToLowerCase(m)
        open == ParenMatchFrom(m, 1)
        found == {i \in 1..Len(COMMON_SCOPES) : HasWholeWord(lowerMessage, COMMON_SCOPES[i])}
    IN  IF open > 0
        THEN SubSeq(m, open + 1, open + SpanLen(m, open + 1, CharsOf(m) \ {")"}))
        ELSE IF found = {} THEN Undefined
        ELSE COMMON_SCOPES[CHOOSE i \in found : \A j \in found : i <= j]

\* type(scope)!: subject, the scope and the '!' only when present.
Assemble(type, scope, breaking, subject) ==
    type \o (IF Truthy(scope) THEN "(" \o scope \o ")" ELSE "")
         \o (IF breaking THEN "!" ELSE "")
         \o ": " \o subject

\* formatCommitMessage(message, type, scope, breaking)
formatCommitMessage(m, type, scope, breaking) ==
    Assemble(IF Truthy(type) THEN type ELSE suggestCommitType(m),
             IF Truthy(scope) THEN scope ELSE suggestScope(m),
             breaking,
             cleanMessage(m))

\* The types the formatter's conventionalRegex accepts.
FormatterTypes ==
    {"feat", "fix", "docs", "style", "refactor", "perf", "test", "build", "ci", "chore",
     "revert", "security"}

\* conventionalRegex.test(message): the conventional form with one of the
\* twelve types.
isConventionalFormat(m) ==
    matchConventional(m).matched /\ matchConventional(m).commitType \in FormatterTypes

\* The fields parseConventionalCommit takes from a match of conventionalRegex:
\* type, scope without parentheses, breaking and the trimmed subject.
ParsedFrom(match) ==
    [matched |-> TRUE,
     type |-> match.commitType,
     scope |-> match.commitScope,
     breaking |-> match.isBreaking # Undefined,
     subject |-> Trim(match.commitSubject)]

\* parseConventionalCommit: null (matched FALSE) when the message is not of
\* the form, else the fields of the match.
parseConventionalCommit(m) ==
    IF ~isConventionalFormat(m) THEN NoMatch ELSE ParsedFrom(matchConventional(m))

\* generateImprovements
generateImprovements(m) ==
    (IF ~isConventionalFormat(m) THEN <<"Convert to conventional commit format">> ELSE <<>>)
    \o (IF Includes(ToLowerCase(m), "breaking") \/ Includes(m, "!")
        THEN <<"Mark as breaking change">> ELSE <<>>)
    \o (IF Len(m) > 72 THEN <<"Shorten message to under 72 characters">> ELSE <<>>)
    \o (IF EndsWith(m, ".") THEN <<"Remove trailing period">> ELSE <<>>)

\* The subject of an existing conventional commit as suggestCommitFormat cleans
\* it: one trailing period removed, first letter capitalized.
CleanSubject(subject) ==
    CapitalizeFirst(IF EndsWith(subject, ".") THEN SubSeq(subject, 1, Len(subject) - 1)
                    ELSE subject)

\* suggestCommitFormat for a message that is not of the conventional form,
\* with the type and the scope it has suggested for the message.
SuggestForLegacy(m, type, scope, breaking) ==
    [original |-> m,
     suggested |-> formatCommitMessage(m, type, scope, breaking),
     type |-> type,
     scope |-> scope,
     breaking |-> breaking,
     improvements |-> generateImprovements(m)]

\* suggestCommitFormat for a message parseConventionalCommit has parsed.
SuggestForConventional(m, parsedCommit) ==
    [original |-> m,
     suggested |-> Assemble(parsedCommit.type, parsedCommit.scope, parsedCommit.breaking,
                            CleanSubject(parsedCommit.subject)),
     type |-> parsedCommit.type,
     scope |-> parsedCommit.scope,
     breaking |-> parsedCommit.breaking,
     improvements |-> generateImprovements(m)
                         \o (IF EndsWith(parsedCommit.subject, ".")
                             THEN <<"Remove trailing period">> ELSE <<>>)]

\* A plausible slip: the heuristics are applied to every message, also to one
\* that already is of the conventional form.
suggestCommitFormatByHeuristics(m) ==
    SuggestForLegacy(m, suggestCommitType(m), suggestScope(m),
                     Includes(ToLowerCase(m), "breaking") \/ Includes(m, "!"))

\* suggestCommitFormat
suggestCommitFormat(m) ==
    IF isConventionalFormat(m)
    THEN SuggestForConventional(m, parseConventionalCommit(m))
    ELSE SuggestForLegacy(m, suggestCommitType(m), suggestScope(m),
                          Includes(ToLowerCase(m), "breaking") \/ Includes(m, "!"))

-----------------------------------------------------------------------------
(* The formatter on its own: formatCommitMessage and suggestCommitFormat on *)
(* messages of the conventional form and free-form messages, with and       *)
(* without a supplied type and scope, and on the fields the parsers return. *)

\* The first words the fallback classifier of parseCommitMessage knows.
ParserKeywords ==
    {"add", "new", "create", "implement", "fix", "bug", "issue", "problem", "update",
     "upgrade", "bump", "refactor", "clean", "improve", "test", "spec", "doc", "readme",
     "comment"}

ConventionalMessages ==
    {"feat: add login", "feat(auth): add login.", "fix!: Drop API", "fix(ui)!: x",
     "feat: add api docs", "docs: update (readme) file", "chore: Bump Version.",
     "feat:  spaced ", "feat:\tx", "perf(core-db): speed up", "feat(auth)!: change",
     "zzz: unknown type", "revert: Undo It"}

FreeFormMessages ==
    {"add user authentication", "fix login bug", "update docs.", "change api response",
     "breaking: change api", "add oauth support", "update version", "add new feature",
     "UI tweak", "fix (auth): x", "build()", "apiary", "", " ", "Rework the CLI.", "wip!",
     "x (a b) y (c)", "improve cache", "  Tidy up.  ", "feat add", "wip..",
     "fix crash (issue 12)"}

FormatMessages == ConventionalMessages \cup FreeFormMessages \cup ParserKeywords

\* The arguments of a direct call: the type and the scope absent, empty or given.
DirectArgs ==
    [message : FormatMessages,
     type : {Undefined, "", "fix"},
     scope : {Undefined, "", "auth"},
     breaking : BOOLEAN]

\* The arguments that hand the fields of a parsed commit back to the formatter.
ArgsOfFormatterParse(m) ==
    [message |-> parseConventionalCommit(m).subject,
     type |-> parseConventionalCommit(m).type,
     scope |-> parseConventionalCommit(m).scope,
     breaking |-> parseConventionalCommit(m).breaking]

ArgsOfChangelogParse(m) ==
    [message |-> parseCommitMessage(m).subject,
     type |-> parseCommitMessage(m).type,
     scope |-> parseCommitMessage(m).scope,
     breaking |-> parseCommitMessage(m).breaking = "true"]

ParsedArgs ==
    {ArgsOfFormatterParse(m) : m \in {c \in ConventionalMessages : isConventionalFormat(c)}}
        \cup {ArgsOfChangelogParse(m) : m \in ConventionalMessages}

InitFormat ==
    /\ formatArgs \in DirectArgs \cup ParsedArgs
    /\ formatted = NotCalled
    /\ suggestion = NotCalled
    /\ IdleLegacy
    /\ IdleValidate
    /\ IdleGitHub
    /\ IdleBulk
    /\ IdleVersion
    /\ IdleParse
    /\ IdleChangelog
    /\ IdleRelease

CallFormatCommitMessage ==
    /\ ~formatted.called
    /\ formatted' = Returned(formatCommitMessage(formatArgs.message, formatArgs.type,
                                                 formatArgs.scope, formatArgs.breaking))
    /\ UNCHANGED <<formatArgs, suggestion, legacyVars, validateVars, versionVars, parseVars,
                   changelogVars, releaseVars, githubVars, bulkVars>>

CallSuggestCommitFormat ==
    /\ ~suggestion.called
    /\ suggestion' = Returned(suggestCommitFormat(formatArgs.message))
    /\ UNCHANGED <<formatArgs, formatted, legacyVars, validateVars, versionVars, parseVars,
                   changelogVars, releaseVars, githubVars, bulkVars>>

NextFormat == CallFormatCommitMessage \/ CallSuggestCommitFormat

SpecFormat == InitFormat /\ [][NextFormat]_vars

-----------------------------------------------------------------------------
(* Claims about the formatter.                                              *)

\* The messages of the grammar type[(scope)][!]: description, the description
\* without surrounding blanks.
ValidConventional ==
    {m \in ConventionalMessages :
        /\ matchConventional(m).matched
        /\ At(m, Len(m) - Len(matchConventional(m).commitSubject)) = " "
        /\ Trim(matchConventional(m).commitSubject) = matchConventional(m).commitSubject}

\* The text of m up to and including its colon.
HeaderOf(m) == SubSeq(m, 1, Len(m) - Len(matchConventional(m).commitSubject) - 1)

\* m with its description trimmed, stripped of one trailing period and
\* sentence-cased.
Normalized(m) == HeaderOf(m) \o " " \o cleanMessage(matchConventional(m).commitSubject)

\* The argument lists either parser yields for m.
RoundTripArgs(m) ==
    {ArgsOfChangelogParse(m)}
        \cup (IF isConventionalFormat(m) THEN {ArgsOfFormatterParse(m)} ELSE {})

\* C13: for every valid conventional message m, formatCommitMessage called
\* with the subject, type, scope and breaking flag parsed from m returns m with
\* its subject sentence-cased and stripped of a trailing period; no scope and no
\* breaking marker appears that m did not have.
C13_RoundTrip ==
    \A m \in ValidConventional :
        (formatted.called /\ formatArgs \in RoundTripArgs(m)) => formatted.value = Normalized(m)

\* What holds instead: the round trip reproduces m when m has a scope or its
\* subject suggests none; the breaking marker is always the one of m.
RoundTripWhenNoScopeSuggested ==
    \A m \in ValidConventional :
        (formatted.called /\ formatArgs \in RoundTripArgs(m))
            => /\ (\/ matchConventional(m).commitScope # Undefined
                   \/ suggestScope(matchConventional(m).commitSubject) = Undefined)
                  => formatted.value = Normalized(m)
               /\ Includes(formatted.value, "!: ") <=> matchConventional(m).isBreaking # Undefined

\* The round trip of 'feat: add api docs' has returned 'feat(api): Add api docs'.
RoundTripAddsScope ==
    /\ formatted.called
    /\ formatArgs \in RoundTripArgs("feat: add api docs")
    /\ formatted.value = "feat(api): Add api docs"

\* The type a formatted message starts with.
TypeOfFormatted(value) == SubSeq(value, 1, SpanLen(value, 1, WordChars))

\* formatCommitMessage has returned for a call without a type.
FormattedWithoutType == formatted.called /\ ~Truthy(formatArgs.type)

EntriesOccurringIn(m) ==
    LET lower == ToLowerCase(m)
    IN  {i \in 1..Len(TYPE_KEYWORDS) :
            \E keyword \in TYPE_KEYWORDS[i].keywords : Includes(lower, keyword)}

\* The type of the first of the entries, 'chore' when there is none.
TypeOfFirstEntry(entries) ==
    IF entries = {} THEN "chore"
    ELSE TYPE_KEYWORDS[CHOOSE i \in entries : \A j \in entries : i <= j].type

\* The parser keywords the formatter's own table does not hold.
KeywordsOnlyOfParser == {"problem", "clean", "improve", "doc"}

ParenPairs(m) ==
    {pair \in (1..Len(m)) \X (1..Len(m)) :
        /\ pair[1] + 1 < pair[2]
        /\ At(m, pair[1]) = "("
        /\ At(m, pair[2]) = ")"
        /\ \A k \in (pair[1] + 1)..(pair[2] - 1) : At(m, k) # ")"}

\* The text between the first such pair.
FirstParenContent(m, pairs) ==
    LET first == CHOOSE pair \in pairs : \A other \in pairs : pair[1] <= other[1]
    IN  SubSeq(m, first[1] + 1, first[2] - 1)

\* The scopes of the common-scope list that are whole words of the message,
\* whatever the case of the letters.
CommonScopesIn(m) == {i \in 1..Len(COMMON_SCOPES) : HasWholeWord(m, COMMON_SCOPES[i])}

\* The scope the claim expects for a message and a scope argument.
ExpectedScope(m, scope) ==
    IF scope # Undefined /\ scope # "" THEN scope
    ELSE IF ParenPairs(m) # {} THEN FirstParenContent(m, ParenPairs(m))
    ELSE IF CommonScopesIn(m) # {}
         THEN COMMON_SCOPES[CHOOSE i \in CommonScopesIn(m) : \A j \in CommonScopesIn(m) : i <= j]
    ELSE Undefined

\* The formatted message with the scope segment the claim expects.
WithScopeSegment(value, scope, breaking, m) ==
    TypeOfFormatted(value)
        \o (IF scope = Undefined THEN "" ELSE "(" \o scope \o ")")
        \o (IF breaking THEN "!" ELSE "")
        \o ": " \o cleanMessage(m)

\* C15: formatCommitMessage uses a supplied scope as given; without one it
\* takes the content of the first '(...)' of the message, else the first word of
\* the common-scope list that is a whole word of the message (case-insensitive),
\* else it writes no scope segment.
C15_ScopeAsGivenOrInferred ==
    formatted.called =>
        formatted.value = WithScopeSegment(formatted.value,
                                           ExpectedScope(formatArgs.message, formatArgs.scope),
                                           formatArgs.breaking, formatArgs.message)

\* Calls without a scope have returned: one with the scope of a '(...)', one
\* with a common scope written in capitals, one without a scope segment; a call
\* with a scope has returned with that scope.
C15_Witness ==
    /\ formatted.called
    /\ \/ /\ formatArgs.message = "fix (auth): x"
          /\ ~Truthy(formatArgs.scope)
          /\ Includes(formatted.value, "(auth): Fix (auth): x")
       \/ /\ formatArgs.message = "UI tweak"
          /\ ~Truthy(formatArgs.scope)
          /\ Includes(formatted.value, "(ui): Ui tweak")
       \/ /\ formatArgs.message = "apiary"
          /\ ~Truthy(formatArgs.scope)
          /\ ~Includes(formatted.value, "(")

\* The subject the claim describes: the input trimmed, one trailing period
\* removed, all letters lowercased, then the first character capitalized.
ExpectedSubject(m) ==
    LET trimmed == Trim(m)
        stripped == IF trimmed # "" /\ At(trimmed, Len(trimmed)) = "."
                    THEN SubSeq(trimmed, 1, Len(trimmed) - 1) ELSE trimmed
        lower == ToLowerCase(stripped)
    IN  IF lower = "" THEN "" ELSE ToUpperChar(Head(lower)) \o Tail(lower)

\* A header of the shape type[(scope)][!], the '!' present exactly when asked.
HeaderShape(header, breaking) ==
    LET typeLen == SpanLen(header, 1, WordChars)
        afterType == SubSeq(header, typeLen + 1, Len(header))
        bang == IF breaking THEN "!" ELSE ""
    IN  /\ typeLen > 0
        /\ \/ afterType = bang
           \/ /\ At(afterType, 1) = "("
              /\ Len(afterType) > 2 + Len(bang)
              /\ EndsWith(afterType, ")" \o bang)

\* No lowercase first letter and no capital after it.
SentenceCased(subject) ==
    \/ subject = ""
    \/ /\ Head(subject) \notin CharsOf(LowerLetters)
       /\ CharsOf(Tail(subject)) \cap CharsOf(UpperLetters) = {}

\* The formatted message is header, ': ' and the subject.
FormattedAs(value, subject, breaking) ==
    /\ Len(value) >= Len(subject) + 2
    /\ value = SubSeq(value, 1, Len(value) - Len(subject) - 2) \o ": " \o subject
    /\ HeaderShape(SubSeq(value, 1, Len(value) - Len(subject) - 2), breaking)

\* C16: formatCommitMessage always produces type[(scope)][!]: Subject, the
\* Subject being the input trimmed, one trailing period stripped, lowercased
\* and its first character capitalized; so the subject is sentence-cased and
\* free of a trailing period for every input.
C16_ShapeAndCleanSubject ==
    formatted.called =>
        /\ FormattedAs(formatted.value, ExpectedSubject(formatArgs.message), formatArgs.breaking)
        /\ SentenceCased(ExpectedSubject(formatArgs.message))
        /\ ~EndsWith(formatted.value, ".")

\* C16 as amended: the shape and the subject are as stated and the subject is
\* sentence-cased for every input; it is free of a trailing period unless the
\* trimmed input ends with two or more periods, of which only one is stripped.
C16_ShapeAndOnePeriodStripped ==
    formatted.called =>
        /\ FormattedAs(formatted.value, ExpectedSubject(formatArgs.message), formatArgs.breaking)
        /\ SentenceCased(ExpectedSubject(formatArgs.message))
        /\ EndsWith(formatted.value, ".") <=> EndsWith(Trim(formatArgs.message), "..")

\* '  Tidy up.  ' has been formatted to the subject 'Tidy up', 'wip..' to
\* the subject 'Wip.'.
C16_Witness ==
    /\ formatted.called
    /\ \/ formatArgs.message = "  Tidy up.  " /\ EndsWith(formatted.value, ": Tidy up")
       \/ formatArgs.message = "wip.." /\ EndsWith(formatted.value, ": Wip.")

\* The messages the formatter takes as already conventional: the grammar with
\* one of its twelve types.
AlreadyConventional ==
    {m \in ConventionalMessages :
        matchConventional(m).matched /\ matchConventional(m).commitType \in FormatterTypes}

\* suggestCommitFormat has returned for a message that was already conventional.
SuggestedForConventional == suggestion.called /\ formatArgs.message \in AlreadyConventional

\* The suggestion carries the type, the scope and the breaking flag of the
\* message itself.
KeepsClassification(m, suggested) ==
    /\ suggested.type = matchConventional(m).commitType
    /\ suggested.scope = matchConventional(m).commitScope
    /\ suggested.breaking = (matchConventional(m).isBreaking # Undefined)
    /\ SubSeq(suggested.suggested, 1, Len(HeaderOf(m)) + 1) = HeaderOf(m) \o " "

\* The trimmed subject without one trailing period, its first character
\* capitalized and the others as they were.
FirstLetterCapitalized(subject) ==
    LET trimmed == Trim(subject)
        stripped == IF trimmed # "" /\ At(trimmed, Len(trimmed)) = "."
                    THEN SubSeq(trimmed, 1, Len(trimmed) - 1) ELSE trimmed
    IN  IF stripped = "" THEN "" ELSE ToUpperChar(Head(stripped)) \o Tail(stripped)

\* C17: for an input that already is a valid conventional commit,
\* suggestCommitFormat takes type, scope and breaking from parsing the input and
\* changes only the subject, which is period-stripped and sentence-cased; the
\* suggested string keeps the author's type, scope and '!'.
C17_KeepsClassificationSentenceCases ==
    SuggestedForConventional =>
        /\ KeepsClassification(formatArgs.message, suggestion.value)
        /\ suggestion.value.suggested
              = HeaderOf(formatArgs.message) \o " "
                    \o ExpectedSubject(matchConventional(formatArgs.message).commitSubject)

\* C17 as amended: type, scope and breaking come from parsing and the
\* suggested string keeps the author's type, scope and '!'; the subject is
\* trimmed, stripped of one trailing period and its first character is
\* capitalized, the rest of it keeping its case.
C17_KeepsClassificationCapitalizesFirst ==
    SuggestedForConventional =>
        /\ KeepsClassification(formatArgs.message, suggestion.value)
        /\ suggestion.value.suggested
              = HeaderOf(formatArgs.message) \o " "
                    \o FirstLetterCapitalized(matchConventional(formatArgs.message).commitSubject)

\* The suggestion for 'chore: Bump Version.' is 'chore: Bump Version', with
\* the type of the message although 'version' and 'bump' are keywords.
C17_Witness ==
    /\ suggestion.called
    /\ formatArgs.message = "chore: Bump Version."
    /\ suggestion.value.suggested = "chore: Bump Version"
    /\ suggestion.value.type = "chore"

-----------------------------------------------------------------------------
(* legacySupport.ts: the analysis of a history of free-form commits.        *)

\* isConventionalCommit: the conventional form with one of the twelve types.
isConventionalCommit(m) ==
    matchConventional(m).matched /\ matchConventional(m).commitType \in FormatterTypes

\* The if-chain of analyzeCommitPatterns that suggests a type for a first
\* word; the pattern starts as 'chore' and keeps it when no branch is taken.
SuggestedTypeOf(firstWord) ==
    IF firstWord \in {"add", "new", "create", "implement"} THEN "feat"
    ELSE IF firstWord \in {"fix", "bug", "issue", "problem"} THEN "fix"
    ELSE IF firstWord \in {"update", "upgrade", "bump"} THEN "chore"
    ELSE IF firstWord \in {"refactor", "clean", "improve"} THEN "refactor"
    ELSE IF firstWord \in {"test", "spec"} THEN "test"
    ELSE IF firstWord \in {"doc", "readme", "comment"} THEN "docs"
    ELSE "chore"

\* The position of the pattern of a word in the values of the Map, 0 when the
\* Map has no such key.
PatternIndex(found, word) ==
    IF \E i \in 1..Len(found) : found[i].pattern = word
    THEN CHOOSE i \in 1..Len(found) : found[i].pattern = word
    ELSE 0

\* One pass of the loop for a message with first word firstWord: the pattern
\* is created when the Map has none, counted, given the message as an example
\* while it has fewer than three, and given its suggested type.
CountCommit(found, m, firstWord) ==
    LET i == PatternIndex(found, firstWord)
    IN  IF i = 0
        THEN Append(found, [pattern |-> firstWord, count |-> 1, examples |-> <<m>>,
                            suggestedType |-> SuggestedTypeOf(firstWord)])
        ELSE [found EXCEPT ![i] = [pattern |-> firstWord,
                                   count |-> found[i].count + 1,
                                   examples |-> IF Len(found[i].examples) < 3
                                                THEN Append(found[i].examples, m)
                                                ELSE found[i].examples,
                                   suggestedType |-> SuggestedTypeOf(firstWord)]]

RECURSIVE CollectPatterns(_, _)
\* The loop of analyzeCommitPatterns: conventional messages and messages
\* whose split(/\s+/)[0] is empty are passed over.
CollectPatterns(messages, found) ==
    IF messages = <<>> THEN found
    ELSE IF isConventionalCommit(Head(messages)) \/ firstWordOf(Head(messages)) = ""
         THEN CollectPatterns(Tail(messages), found)
         ELSE CollectPatterns(Tail(messages),
                              CountCommit(found, Head(messages), firstWordOf(Head(messages))))

RECURSIVE InsertByCount(_, _)
\* x put into a list sorted with (a, b) => b.count - a.count, after every
\* pattern it does not have to precede.
InsertByCount(sorted, x) ==
    IF sorted = <<>> THEN <<x>>
    ELSE IF sorted[Len(sorted)].count - x.count < 0
         THEN Append(InsertByCount(SubSeq(sorted, 1, Len(sorted) - 1), x), sorted[Len(sorted)])
         ELSE Append(sorted, x)

\* A plausible slip: the patterns are returned in Map order, unsorted.
analyzeCommitPatternsUnsorted(messages) == CollectPatterns(messages, <<>>)

RECURSIVE SortByCount(_)
\* Array.prototype.sort with that comparator: a stable sort, highest count
\* first.
SortByCount(found) ==
    IF found = <<>> THEN <<>>
    ELSE InsertByCount(SortByCount(SubSeq(found, 1, Len(found) - 1)), found[Len(found)])

\* analyzeCommitPatterns
analyzeCommitPatterns(messages) == SortByCount(CollectPatterns(messages, <<>>))

RECURSIVE Filter(_, _)
\* Array.prototype.filter with conventional or legacy messages kept.
Filter(messages, conventional) ==
    IF messages = <<>> THEN <<>>
    ELSE IF isConventionalCommit(Head(messages)) = conventional
         THEN <<Head(messages)>> \o Filter(Tail(messages), conventional)
         ELSE Filter(Tail(messages), conventional)

\* A plausible slip: fifty legacy commits still count as few.
determineMigrationStrategyInclusive(counts) ==
    IF counts.legacyCommits <= 50 THEN "bulk"
    ELSE IF 10 * counts.conventionalCommits > 3 * counts.legacyCommits THEN "hybrid"
    ELSE "gradual"

\* determineMigrationStrategy. conventionalCommits > legacyCommits * 0.3 is a
\* comparison of doubles: 0.3 is a little below three tenths, by less than
\* half a unit in the last place, so legacyCommits * 0.3 rounds to the integer
\* 3 * legacyCommits / 10 when that is one and is otherwise at least a tenth
\* away from every integer; the comparison is that of 10 * conventionalCommits
\* with 3 * legacyCommits.
determineMigrationStrategy(counts) ==
    IF counts.legacyCommits < 50 THEN "bulk"
    ELSE IF 10 * counts.conventionalCommits > 3 * counts.legacyCommits THEN "hybrid"
    ELSE "gradual"

\* The counts analyzeLegacyCommits takes from the commits.
AnalysisOf(messages) ==
    [legacyCommits |-> Len(Filter(messages, FALSE)),
     conventionalCommits |-> Len(Filter(messages, TRUE))]

-----------------------------------------------------------------------------
(* The analysis of histories of up to MaxMessages commits.                  *)

MaxMessages == 4

\* Subjects of a history: two spellings of one first word, other words, a
\* conventional commit, a type the tool does not know, a subject that starts
\* with a blank.
LegacyPool == {"Fix login", "fix typo", "add x", "feat: y", "zzz: q", " fix z"}

Histories == UNION {[1..n -> LegacyPool] : n \in 0..MaxMessages}

InitPatterns ==
    /\ legacyMessages \in Histories
    /\ patterns = NotCalled
    /\ analysis = [legacyCommits |-> 0, conventionalCommits |-> 0]
    /\ strategy = NotCalled
    /\ IdleFormat
    /\ IdleValidate
    /\ IdleGitHub
    /\ IdleBulk
    /\ IdleVersion
    /\ IdleParse
    /\ IdleChangelog
    /\ IdleRelease

\* analyzeLegacyCommits up to the analysis it displays.
analyzeLegacyCommits ==
    /\ ~patterns.called
    /\ patterns' = Returned(analyzeCommitPatterns(Filter(legacyMessages, FALSE)))
    /\ analysis' = AnalysisOf(legacyMessages)
    /\ strategy' = Returned(determineMigrationStrategy(AnalysisOf(legacyMessages)))
    /\ UNCHANGED <<legacyMessages, formatVars, validateVars, versionVars, parseVars,
                   changelogVars, releaseVars, githubVars, bulkVars>>

SpecPatterns == InitPatterns /\ [][analyzeLegacyCommits]_vars

-----------------------------------------------------------------------------
(* The migration strategy for counts up to MaxLegacyCount legacy and        *)
(* MaxConventionalCount conventional commits.                               *)

MaxLegacyCount == 60

MaxConventionalCount == 20

InitStrategy ==
    /\ analysis \in [legacyCommits : 0..MaxLegacyCount,
                     conventionalCommits : 0..MaxConventionalCount]
    /\ strategy = NotCalled
    /\ legacyMessages = <<>>
    /\ patterns = NotCalled
    /\ IdleFormat
    /\ IdleValidate
    /\ IdleGitHub
    /\ IdleBulk
    /\ IdleVersion
    /\ IdleParse
    /\ IdleChangelog
    /\ IdleRelease

CallDetermineMigrationStrategy ==
    /\ ~strategy.called
    /\ strategy' = Returned(determineMigrationStrategy(analysis))
    /\ UNCHANGED <<legacyMessages, patterns, analysis, formatVars, validateVars, versionVars,
                   parseVars, changelogVars, releaseVars, githubVars, bulkVars>>

SpecStrategy == InitStrategy /\ [][CallDetermineMigrationStrategy]_vars

-----------------------------------------------------------------------------
(* Claims about the analysis of legacy commits.                             *)

\* The positions of the subjects that are a legacy commit with the lowercase
\* first word word; a subject that is empty or starts with a blank has no
\* first word and is in no pattern.
CommitsStartingWith(subjects, word) ==
    {i \in 1..Len(subjects) :
        /\ ~(matchConventional(subjects[i]).matched
             /\ matchConventional(subjects[i]).commitType \in FormatterTypes)
        /\ firstWordOf(subjects[i]) = word}

\* The lowercase first words of the legacy commits among the subjects.
FirstWordsOf(subjects) ==
    {firstWordOf(subjects[i]) :
        i \in {j \in 1..Len(subjects) :
                  /\ ~(matchConventional(subjects[j]).matched
                       /\ matchConventional(subjects[j]).commitType \in FormatterTypes)
                  /\ firstWordOf(subjects[j]) # ""}}

\* The first n elements of a set of positions, in ascending order.
RECURSIVE FirstPositions(_, _)
FirstPositions(positions, n) ==
    IF n = 0 \/ positions = {} THEN <<>>
    ELSE LET least == CHOOSE i \in positions : \A j \in positions : i <= j
         IN  <<least>> \o FirstPositions(positions \ {least}, n - 1)

\* The least of a non-empty set of positions.
FirstPosition(positions) == CHOOSE i \in positions : \A j \in positions : i <= j

\* The pattern is the one the claim describes for its word.
DescribesItsWord(pattern, subjects) ==
    LET positions == CommitsStartingWith(subjects, pattern.pattern)
        firstThree == FirstPositions(positions, 3)
    IN  /\ pattern.count = Cardinality(positions)
        /\ pattern.examples = [k \in 1..Len(firstThree) |-> subjects[firstThree[k]]]
        /\ pattern.suggestedType = inferType(pattern.pattern)

\* C18: analyzeCommitPatterns returns one pattern per distinct lowercase
\* first word of the legacy commits, with the number of those commits as count,
\* the first up to three of their messages as examples and the type the
\* parser's fallback table gives the word; the patterns are sorted by count,
\* highest first, patterns of equal count in the order their words were first
\* met.
C18_OnePatternPerFirstWord ==
    patterns.called =>
        /\ LET words == FirstWordsOf(legacyMessages)
           IN  /\ {patterns.value[i].pattern : i \in 1..Len(patterns.value)} = words
               /\ Len(patterns.value) = Cardinality(words)
        /\ \A i \in 1..Len(patterns.value) : DescribesItsWord(patterns.value[i], legacyMessages)
        /\ \A i, j \in 1..Len(patterns.value) :
              i < j =>
                  \/ patterns.value[i].count > patterns.value[j].count
                  \/ /\ patterns.value[i].count = patterns.value[j].count
                     /\ FirstPosition(CommitsStartingWith(legacyMessages,
                                                          patterns.value[i].pattern))
                           < FirstPosition(CommitsStartingWith(legacyMessages,
                                                               patterns.value[j].pattern))

\* A history has been analysed in which the word met second has the higher
\* count and four commits start with it, among them both spellings.
C18_Witness ==
    /\ patterns.called
    /\ legacyMessages = <<"add x", "Fix login", "fix typo", "fix typo">>
    /\ Len(patterns.value) = 2
    /\ patterns.value[1].pattern = "fix"
    /\ patterns.value[1].count = 3
    /\ patterns.value[1].examples = <<"Fix login", "fix typo", "fix typo">>
    /\ patterns.value[2].pattern = "add"

\* determineMigrationStrategy has returned this strategy.
StrategyIs(name) == strategy.called /\ strategy.value = name

\* C19: determineMigrationStrategy returns 'bulk' when legacyCommits < 50,
\* otherwise 'hybrid' when conventionalCommits > 0.3 x legacyCommits, otherwise
\* 'gradual', for all non-negative counts.
C19_StrategyByThresholds ==
    strategy.called =>
        /\ StrategyIs("bulk") <=> analysis.legacyCommits < 50
        /\ StrategyIs("hybrid")
              <=> /\ analysis.legacyCommits >= 50
                  /\ analysis.conventionalCommits * 10 > analysis.legacyCommits * 3
        /\ StrategyIs("gradual")
              <=> /\ analysis.legacyCommits >= 50
                  /\ analysis.conventionalCommits * 10 <= analysis.legacyCommits * 3

\* The strategy for exactly fifty legacy and fifteen conventional commits,
\* the boundary of both conditions, has been determined: gradual.
C19_Witness ==
    /\ StrategyIs("gradual")
    /\ analysis.legacyCommits = 50
    /\ analysis.conventionalCommits = 15

-----------------------------------------------------------------------------
(* validateCommits.ts: the validation of one commit message.                *)

\* CONVENTIONAL_COMMIT_REGEX.test(message): the conventional form with one of
\* the twelve types.
MatchesConventionalCommitRegex(m) ==
    matchConventional(m).matched /\ matchConventional(m).commitType \in FormatterTypes

\* message.substring(message.indexOf(':') + 1).trim()
AfterFirstColon(m) == Trim(SubSeq(m, IndexIn(m, ":", 1) + 1, Len(m)))

\* parseCommitMessage of validateCommits.ts: type 'invalid' and the whole
\* message as subject when the regex does not match.
parseForValidation(m) ==
    IF ~MatchesConventionalCommitRegex(m)
    THEN [type |-> "invalid", scope |-> Undefined, breaking |-> FALSE, subject |-> m]
    ELSE [type |-> matchConventional(m).commitType,
          scope |-> matchConventional(m).commitScope,
          breaking |-> matchConventional(m).isBreaking # Undefined,
          subject |-> AfterFirstColon(m)]

\* checkCommonIssues
checkCommonIssues(m) ==
    (IF Includes(ToLowerCase(m), "wip")
     THEN <<"Commit message contains \"WIP\" - consider squashing before release">>
     ELSE <<>>)
    \o (IF Includes(ToLowerCase(m), "fixup")
        THEN <<"Commit message contains \"fixup\" - consider squashing before release">>
        ELSE <<>>)

\* A plausible slip: an empty subject is not an error.
validateCommitStructureTypeOnly(parsedCommit) ==
    IF parsedCommit.type = "invalid" THEN <<"Invalid commit type">> ELSE <<>>

\* validateCommitStructure
validateCommitStructure(parsedCommit) ==
    (IF parsedCommit.type = "invalid" THEN <<"Invalid commit type">> ELSE <<>>)
    \o (IF Len(parsedCommit.subject) = 0 THEN <<"Commit subject is empty">> ELSE <<>>)

\* validateCommitSubject
validateCommitSubject(parsedCommit) ==
    IF EndsWith(parsedCommit.subject, ".") THEN <<"Commit subject ends with a period">>
    ELSE <<>>

\* The result of validateCommitMessage from its two lists.
ValidationResult(errors, warnings) ==
    [isValid |-> Len(errors) = 0, errors |-> errors, warnings |-> warnings]

\* validateCommitMessage
validateCommitMessage(m) ==
    ValidationResult(
        (IF ~MatchesConventionalCommitRegex(m)
         THEN <<"Commit message does not follow conventional commit format">> ELSE <<>>)
            \o validateCommitStructure(parseForValidation(m)),
        (IF Len(m) > 72 THEN <<"Commit message is longer than 72 characters">> ELSE <<>>)
            \o checkCommonIssues(m)
            \o validateCommitSubject(parseForValidation(m)))

-----------------------------------------------------------------------------
(* The validation of messages put together from a header, a separator and a *)
(* description.                                                             *)

Headers == {"feat", "fix(ui)", "feat!", "docs(api-v2)!", "zzz", "Feat", "feat(", "feat()", ""}

Separators == {": ", ":", ":\t", " "}

\* A description of more than 72 characters.
LongDescription ==
    "aaaaaaaaaaaaaaaaaaaaaaaaaaaaaaaaaaaaaaaaaaaaaaaaaaaaaaaaaaaaaaaaaaaaaaaaaaaaaaaa"

Descriptions == {"add login", " ", "WIP stuff.", "fixup x", LongDescription, ""}

CheckedMessages ==
    {header \o separator \o description :
        header \in Headers, separator \in Separators, description \in Descriptions}

InitValidate ==
    /\ checkedMessage \in CheckedMessages
    /\ validation = NotCalled
    /\ IdleFormat
    /\ IdleLegacy
    /\ IdleGitHub
    /\ IdleBulk
    /\ IdleVersion
    /\ IdleParse
    /\ IdleChangelog
    /\ IdleRelease

CallValidateCommitMessage ==
    /\ ~validation.called
    /\ validation' = Returned(validateCommitMessage(checkedMessage))
    /\ UNCHANGED <<checkedMessage, formatVars, legacyVars, versionVars, parseVars,
                   changelogVars, releaseVars, githubVars, bulkVars>>

SpecValidate == InitValidate /\ [][CallValidateCommitMessage]_vars

-----------------------------------------------------------------------------
(* Claims about the validation.                                             *)

\* A message of the form type[(scope)][!]: description with one of the
\* twelve types; the description is whatever follows the blank.
OfConventionalForm(m) ==
    \E n \in 1..Len(m) :
        /\ At(m, n) = ":"
        /\ At(m, n + 1) \in Whitespace
        /\ Len(m) > n + 1
        /\ CharsOf(SubSeq(m, n + 2, Len(m))) \cap LineTerminators = {}
        /\ \E type \in FormatterTypes :
              /\ Len(type) < n
              /\ SubSeq(m, 1, Len(type)) = type
              /\ LET rest == SubSeq(m, Len(type) + 1, n - 1)
                     unmarked == IF rest # "" /\ At(rest, Len(rest)) = "!"
                                 THEN SubSeq(rest, 1, Len(rest) - 1) ELSE rest
                 IN  \/ unmarked = ""
                     \/ /\ Len(unmarked) > 2
                        /\ At(unmarked, 1) = "("
                        /\ At(unmarked, Len(unmarked)) = ")"
                        /\ AllIn(SubSeq(unmarked, 2, Len(unmarked) - 1), WordChars \cup {"-"})

FormatError == "Commit message does not follow conventional commit format"

\* The elements of a list.
Elements(list) == {list[i] : i \in 1..Len(list)}

\* C20: validateCommitMessage returns isValid = true with no error for every
\* message of the conventional form with a recognized type, and isValid = false
\* with the format error for every other message; the warnings never change
\* isValid.
C20_ValidIffConventionalForm ==
    validation.called =>
        IF OfConventionalForm(checkedMessage)
        THEN validation.value.isValid /\ validation.value.errors = <<>>
        ELSE ~validation.value.isValid /\ FormatError \in Elements(validation.value.errors)

\* The description of a message of the conventional form is blank.
BlankDescription(m) == Trim(SubSeq(m, IndexIn(m, ":", 1) + 1, Len(m))) = ""

\* C20 as amended: a message of the conventional form with a recognized type
\* is valid, with no error, unless its description is blank, in which case it
\* is invalid with the one error 'Commit subject is empty'; every other message
\* is invalid with the format error; isValid is true exactly when there is no
\* error, whatever the warnings.
C20_ValidIffFormAndSubject ==
    validation.called =>
        /\ validation.value.isValid <=> validation.value.errors = <<>>
        /\ IF ~OfConventionalForm(checkedMessage)
           THEN ~validation.value.isValid /\ FormatError \in Elements(validation.value.errors)
           ELSE IF BlankDescription(checkedMessage)
                THEN validation.value.errors = <<"Commit subject is empty">>
                ELSE validation.value.isValid /\ validation.value.errors = <<>>

\* 'feat!: WIP stuff.' has been validated: valid, with two warnings; and so
\* has 'feat:  ', which has the form and no subject.
C20_Witness ==
    /\ validation.called
    /\ \/ /\ checkedMessage = "feat!: WIP stuff."
          /\ validation.value.isValid
          /\ Len(validation.value.warnings) = 2
       \/ /\ checkedMessage = "feat:  "
          /\ ~validation.value.isValid

-----------------------------------------------------------------------------
\* Release readiness (legacySupport.ts): bumper.config.json and the pull
\* requests merged since the last release.

\* A JSON object is a function from its keys to its values.
HasKey(obj, key) == key \in DOMAIN obj

\* Object spread { ...a, ...b }: the keys of both, b's value where b has the
\* key.  The values are taken whole: nothing is merged below the top level.
Spread(a, b) == [k \in DOMAIN a \cup DOMAIN b |-> IF k \in DOMAIN b THEN b[k] ELSE a[k]]

DEFAULT_CONFIG ==
    [releaseRequirements |->
        [requiredLabels |-> <<>>,
         blockingLabels |-> <<"do-not-release", "wip", "block-release">>,
         requiredStatusChecks |-> <<"ci">>],
     autoLabel |->
        [enabled |-> FALSE,
         mappings |-> [feat |-> <<"enhancement">>, fix |-> <<"bug">>,
                       security |-> <<"security">>, docs |-> <<"documentation">>,
                       test |-> <<"testing">>, perf |-> <<"performance">>,
                       refactor |-> <<"refactor">>]],
     changelog |->
        [groupByLabels |-> FALSE,
         labelGroups |-> ("High Priority" :> <<"high-priority", "critical", "security">>
                          @@ "Breaking Changes" :> <<"breaking-change">>
                          @@ "User Facing" :> <<"user-facing", "ui", "ux">>
                          @@ "Internal" :> <<"internal", "refactor", "chore">>),
         priorityLabels |-> <<"high-priority", "critical", "security">>]]

MissingFile == [kind |-> "missing"]

InvalidJson == [kind |-> "invalid"]

JsonFile(obj) == [kind |-> "json", value |-> obj]

\* loadConfig(): the defaults when the file is missing or JSON.parse throws,
\* otherwise the defaults overwritten by the file's top-level keys.
loadConfig(file) ==
    IF file.kind = "missing" THEN DEFAULT_CONFIG
    ELSE IF file.kind = "json" THEN Spread(DEFAULT_CONFIG, file.value)
    ELSE DEFAULT_CONFIG

\* config.releaseRequirements?.[key]: the list, or undefined.  Both uses of it
\* (?.includes(..) and ?.length) treat undefined as the empty list does.
RequirementOf(config, key) ==
    IF HasKey(config, "releaseRequirements") /\ HasKey(config.releaseRequirements, key)
    THEN config.releaseRequirements[key]
    ELSE <<>>

GhUnavailable == "gh unavailable"

NoTags == "no tags"

GhListFails == "gh pr list fails"

GhWorks == "gh works"

\* getPRsSinceLastRelease(): what gh pr list reports, [] when git describe or
\* gh throws.
getPRsSinceLastRelease(gh, reported) == IF gh = GhWorks THEN reported ELSE <<>>

BlockingIssue(pr, label) ==
    "PR #" \o NatToString(pr.number) \o " has blocking label: " \o label

MissingLabelIssue(pr, requiredLabels) ==
    "PR #" \o NatToString(pr.number) \o " missing required label ("
        \o JoinWith(requiredLabels, " or ") \o ")"

BlockingIssuesOf(pr, blockingLabels) ==
    LET hits == SelectSeq(pr.labels, LAMBDA label :
                    \E i \in 1..Len(blockingLabels) : blockingLabels[i] = ToLowerCase(label))
    IN  [i \in 1..Len(hits) |-> BlockingIssue(pr, hits[i])]

MissingIssuesOf(pr, requiredLabels) ==
    IF \E i \in 1..Len(pr.labels), j \in 1..Len(requiredLabels) :
           pr.labels[i] = requiredLabels[j]
    THEN <<>>
    ELSE <<MissingLabelIssue(pr, requiredLabels)>>

CliWarning == "GitHub CLI not available - skipping GitHub-specific checks"

StatusCheckWarning == "Status check validation requires additional GitHub API integration"

checkReleaseReadiness(file, gh, reported) ==
    LET config == loadConfig(file)
        prs == getPRsSinceLastRelease(gh, reported)
        blockingLabels == RequirementOf(config, "blockingLabels")
        requiredLabels == RequirementOf(config, "requiredLabels")
        blocked == Flatten([i \in 1..Len(prs) |-> BlockingIssuesOf(prs[i], blockingLabels)])
        missing == IF requiredLabels = <<>> THEN <<>>
                   ELSE Flatten([i \in 1..Len(prs) |-> MissingIssuesOf(prs[i], requiredLabels)])
        issues == blocked \o missing
        warnings == IF RequirementOf(config, "requiredStatusChecks") # <<>>
                    THEN <<StatusCheckWarning>> ELSE <<>>
    IN  IF gh = GhUnavailable
        THEN [isReady |-> TRUE, issues |-> <<>>, warnings |-> <<CliWarning>>, prs |-> <<>>]
        ELSE [isReady |-> issues = <<>>, issues |-> issues, warnings |-> warnings, prs |-> prs]

\* The most pull requests merged since the last release.
MaxPRs == 2

RequirementKeys == {"requiredLabels", "blockingLabels", "requiredStatusChecks"}

\* What a user's file may give for a key of releaseRequirements.
RequirementChoices(key) ==
    IF key = "requiredLabels" THEN {<<"ready-for-release">>}
    ELSE IF key = "blockingLabels" THEN {<<"custom-block">>, <<"On-Hold">>}
    ELSE {<<>>}

UserRequirements ==
    UNION {{f \in [keys -> UNION {RequirementChoices(k) : k \in RequirementKeys}] :
               \A k \in keys : f[k] \in RequirementChoices(k)} : keys \in SUBSET RequirementKeys}

UserObjects ==
    {Spread(a, b) : a \in {<<>>} \cup {[releaseRequirements |-> r] : r \in UserRequirements},
                    b \in {<<>>, [autoLabel |-> [enabled |-> TRUE]]}}

ConfigFiles == {MissingFile, InvalidJson} \cup {JsonFile(obj) : obj \in UserObjects}

LabelLists ==
    {<<>>, <<"bug">>, <<"wip">>, <<"WIP">>, <<"On-Hold">>, <<"ready-for-release">>,
     <<"do-not-release", "wip">>, <<"custom-block", "ready-for-release">>}

PRLists ==
    UNION {{[i \in 1..n |-> [number |-> 120 + i, labels |-> ls[i]]] : ls \in [1..n -> LabelLists]}
              : n \in 0..MaxPRs}

InitReadiness ==
    /\ configFile \in ConfigFiles
    /\ ghState \in {GhUnavailable, NoTags, GhListFails, GhWorks}
    /\ mergedPRs \in PRLists
    /\ loadedConfig = NotCalled
    /\ readiness = NotCalled
    /\ IdleBulk
    /\ IdleFormat
    /\ IdleLegacy
    /\ IdleValidate
    /\ IdleVersion
    /\ IdleParse
    /\ IdleChangelog
    /\ IdleRelease

CallCheckReleaseReadiness ==
    /\ ~readiness.called
    /\ loadedConfig' = Returned(loadConfig(configFile))
    /\ readiness' = Returned(checkReleaseReadiness(configFile, ghState, mergedPRs))
    /\ UNCHANGED <<configFile, ghState, mergedPRs, bulkVars, formatVars, legacyVars,
                   validateVars, versionVars, parseVars, changelogVars, releaseVars>>

SpecReadiness == InitReadiness /\ [][CallCheckReleaseReadiness]_vars

\* Whether the user's file gives a value for the setting `key` of `section`.
Specifies(file, section, key) ==
    /\ file.kind = "json"
    /\ HasKey(file.value, section)
    /\ HasKey(file.value[section], key)

KeepsDefault(config, section, key) ==
    /\ HasKey(config, section)
    /\ HasKey(config[section], key)
    /\ config[section][key] = DEFAULT_CONFIG[section][key]

\* C21: the loaded configuration is the user's file merged with the defaults:
\* every setting the file does not specify keeps its default, so a pull
\* request carrying a default blocking label still blocks when the file does
\* not set blockingLabels; a missing or unparsable file gives exactly the
\* defaults.
C21_UnspecifiedSettingsKeepDefaults ==
    loadedConfig.called =>
        /\ configFile.kind # "json" => loadedConfig.value = DEFAULT_CONFIG
        /\ \A section \in DOMAIN DEFAULT_CONFIG :
              \A key \in DOMAIN DEFAULT_CONFIG[section] :
                  ~Specifies(configFile, section, key)
                      => KeepsDefault(loadedConfig.value, section, key)
        /\ (ghState = GhWorks
                /\ ~Specifies(configFile, "releaseRequirements", "blockingLabels"))
               => \A i \in 1..Len(mergedPRs) :
                      \A label \in Elements(mergedPRs[i].labels)
                            \cap Elements(DEFAULT_CONFIG.releaseRequirements.blockingLabels) :
                          BlockingIssue(mergedPRs[i], label) \in Elements(readiness.value.issues)

\* What does hold of loadConfig: a top-level section the file does not have
\* keeps its default, a section the file has is the file's, whole.
TopLevelMerge ==
    loadedConfig.called =>
        /\ configFile.kind # "json" => loadedConfig.value = DEFAULT_CONFIG
        /\ configFile.kind = "json" =>
              /\ DOMAIN loadedConfig.value = DOMAIN DEFAULT_CONFIG \cup DOMAIN configFile.value
              /\ \A section \in DOMAIN loadedConfig.value :
                    loadedConfig.value[section] =
                        IF HasKey(configFile.value, section)
                        THEN configFile.value[section]
                        ELSE DEFAULT_CONFIG[section]

\* The file sets only requiredLabels, a merged pull request is labelled wip,
\* and the release is reported ready.
DefaultBlockingLabelsLost ==
    /\ readiness.called
    /\ configFile = JsonFile([releaseRequirements |->
                                 [requiredLabels |-> <<"ready-for-release">>]])
    /\ ghState = GhWorks
    /\ \E i \in 1..Len(mergedPRs) : mergedPRs[i].labels = <<"do-not-release", "wip">>
    /\ ~HasKey(loadedConfig.value.releaseRequirements, "blockingLabels")
    /\ \A i \in 1..Len(readiness.value.issues) :
          ~Includes(readiness.value.issues[i], "blocking label")

\* The pull requests merged since the last release, as far as gh tells.
MergedSinceLastRelease == IF ghState = GhWorks THEN mergedPRs ELSE <<>>

ConfiguredLabels(key) == Elements(RequirementOf(loadedConfig.value, key))

\* The issues of a result are exactly one per (PR, label) pair with
\* blocks(label), and one per PR without any required label.
IssuesAre(r, blocks(_)) ==
    LET prs == MergedSinceLastRelease
        required == RequirementOf(loadedConfig.value, "requiredLabels")
        pairs == {pair \in (1..Len(prs)) \X UNION {Elements(prs[i].labels) : i \in 1..Len(prs)} :
                     pair[2] \in Elements(prs[pair[1]].labels) /\ blocks(pair[2])}
        lacking == {i \in 1..Len(prs) :
                       required # <<>> /\ Elements(prs[i].labels) \cap Elements(required) = {}}
    IN  /\ Len(r.issues) = Cardinality(pairs) + Cardinality(lacking)
        /\ Elements(r.issues) =
               {BlockingIssue(prs[pair[1]], pair[2]) : pair \in pairs}
                   \cup {MissingLabelIssue(prs[i], required) : i \in lacking}

ReadyIffNoIssues(r) ==
    /\ r.isReady <=> r.issues = <<>>
    /\ ghState = GhUnavailable =>
          r.isReady /\ r.warnings = <<CliWarning>> /\ r.prs = <<>>

SameIgnoringCase(a, b) == ToLowerCase(a) = ToLowerCase(b)

\* C22: the release is ready exactly when there are no issues; without gh it
\* is ready with a warning and no PR checks; otherwise there is one issue per
\* (PR, label) pair where a merged PR carries a configured blocking label
\* (letter case aside) and one per PR with none of the configured required
\* labels.
C22_OneIssuePerBlockingLabelAndUnlabelledPR ==
    readiness.called =>
        /\ ReadyIffNoIssues(readiness.value)
        /\ ghState # GhUnavailable =>
              IssuesAre(readiness.value,
                        LAMBDA label : \E b \in ConfiguredLabels("blockingLabels") :
                                           SameIgnoringCase(b, label))

\* What does hold: a label blocks when its lowercased form is, as written, one
\* of the configured blocking labels.
IssuesPerLowercasedLabel ==
    readiness.called =>
        /\ ReadyIffNoIssues(readiness.value)
        /\ ghState # GhUnavailable =>
              IssuesAre(readiness.value,
                        LAMBDA label : ToLowerCase(label) \in ConfiguredLabels("blockingLabels"))

\* The file configures the blocking label On-Hold, a merged pull request
\* carries On-Hold, and the release is reported ready.
ConfiguredLabelDoesNotBlock ==
    /\ readiness.called
    /\ ghState = GhWorks
    /\ "On-Hold" \in ConfiguredLabels("blockingLabels")
    /\ \E i \in 1..Len(mergedPRs) : "On-Hold" \in Elements(mergedPRs[i].labels)
    /\ readiness.value.isReady

-----------------------------------------------------------------------------
\* bulk-format (legacySupport.ts, bulkFormatCommits): the legacy commits of
\* the history are given a type and, when the user agrees twice, the history
\* is rewritten with git filter-branch.

\* The mapping rules: a pattern gets a rule when more than 5 commits have it.
mappingRules(found) == SelectSeq(found, LAMBDA pattern : pattern.count > 5)

\* A plausible slip: every pattern gets a rule.
mappingRulesForAll(found) == found

\* mappingRules.get(firstWord) || 'chore'
RuleFor(rules, firstWord) ==
    LET i == PatternIndex(rules, firstWord)
    IN  IF i = 0 THEN "chore" ELSE OrElse(rules[i].suggestedType, "chore")

\* The message of a legacy commit, cleaned: trimmed, one final period
\* dropped, the first character in upper case.
BulkClean(m) ==
    LET trimmed == Trim(m)
        clean == IF EndsWith(trimmed, ".") THEN SubSeq(trimmed, 1, Len(trimmed) - 1)
                 ELSE trimmed
    IN  CapitalizeFirst(clean)

FormattedCommit(m, rules) ==
    [original |-> m, formatted |-> RuleFor(rules, firstWordOf(m)) \o ": " \o BulkClean(m)]

RECURSIVE FormatEach(_, _)
\* The loop over the legacy commits; a message whose first word is empty is
\* passed over.
FormatEach(legacy, rules) ==
    IF legacy = <<>> THEN <<>>
    ELSE IF firstWordOf(Head(legacy)) = "" THEN FormatEach(Tail(legacy), rules)
    ELSE <<FormattedCommit(Head(legacy), rules)>> \o FormatEach(Tail(legacy), rules)

\* formattedCommits of bulkFormatCommits for the legacy commits of a history.
formattedCommits(legacy) ==
    LET rules == mappingRules(analyzeCommitPatterns(legacy))
    IN  FormatEach(legacy, rules)

\* What git filter-branch --msg-filter makes of the messages with the script
\* written: $GIT_COMMIT is the full object name and equals none of the
\* abbreviated hashes the script compares it with, so every commit gets the
\* output of echo "$GIT_COMMIT_MSG", a variable that is not set.
Rewritten(messages) == [i \in 1..Len(messages) |-> ""]

\* The most copies of one message at the start of a history, and the most
\* commits after them.
MaxRepeat == 6

MaxOthers == 2

BulkPool ==
    {"add new feature", "fix login bug.", "update dependencies", "refactor auth module",
     "feat: done", " "}

Repeat(m, k) == [i \in 1..k |-> m]

BulkHistories ==
    {Repeat(m, k) \o rest :
        m \in BulkPool, k \in 0..MaxRepeat,
        rest \in UNION {[1..n -> BulkPool] : n \in 0..MaxOthers}}

BulkOptions(dryRun) ==
    [pc |-> "start", dryRun |-> dryRun, proceed |-> "unasked",
     confirmRewrite |-> "unasked", outcome |-> ""]

InitBulk ==
    /\ legacyMessages \in BulkHistories
    /\ patterns = NotCalled
    /\ analysis = [legacyCommits |-> 0, conventionalCommits |-> 0]
    /\ strategy = NotCalled
    /\ \E dryRun \in BOOLEAN : bulk = BulkOptions(dryRun)
    /\ bulkFormatted = NotCalled
    /\ scriptFile = FALSE
    /\ filterBranchRuns = 0
    /\ IdleGitHub
    /\ IdleFormat
    /\ IdleValidate
    /\ IdleVersion
    /\ IdleParse
    /\ IdleChangelog
    /\ IdleRelease

BulkUnchanged ==
    UNCHANGED <<patterns, analysis, strategy, githubVars, formatVars, validateVars,
                versionVars, parseVars, changelogVars, releaseVars>>

Answer(yes) == IF yes THEN "yes" ELSE "no"

\* bulkFormatCommits up to its first prompt.
BulkStart ==
    /\ bulk.pc = "start"
    /\ LET legacy == Filter(legacyMessages, FALSE)
       IN  IF legacy = <<>>
           THEN /\ bulk' = [bulk EXCEPT !.pc = "done", !.outcome = "no legacy commits"]
                /\ UNCHANGED bulkFormatted
           ELSE /\ bulkFormatted' = Returned(formattedCommits(legacy))
                /\ bulk' = IF bulk.dryRun
                           THEN [bulk EXCEPT !.pc = "done", !.outcome = "dry run"]
                           ELSE [bulk EXCEPT !.pc = "proceed?"]
    /\ UNCHANGED <<legacyMessages, scriptFile, filterBranchRuns>>
    /\ BulkUnchanged

\* The answer to 'Proceed with formatting n commits?'.
AnswerProceed ==
    /\ bulk.pc = "proceed?"
    /\ \E yes \in BOOLEAN :
          bulk' = IF yes
                  THEN [bulk EXCEPT !.pc = "rewrite?", !.proceed = "yes"]
                  ELSE [bulk EXCEPT !.pc = "done", !.proceed = "no", !.outcome = "cancelled"]
    /\ UNCHANGED <<legacyMessages, bulkFormatted, scriptFile, filterBranchRuns>>
    /\ BulkUnchanged

\* The answer to 'Are you sure you want to rewrite git history?'; on yes the
\* script is written and git filter-branch is started.
AnswerRewrite ==
    /\ bulk.pc = "rewrite?"
    /\ \E yes \in BOOLEAN :
          /\ bulk' = IF yes
                     THEN [bulk EXCEPT !.pc = "rewriting", !.confirmRewrite = "yes"]
                     ELSE [bulk EXCEPT !.pc = "done", !.confirmRewrite = "no",
                                       !.outcome = "rewrite cancelled"]
          /\ scriptFile' = yes
    /\ UNCHANGED <<legacyMessages, bulkFormatted, filterBranchRuns>>
    /\ BulkUnchanged

\* A plausible slip: the script is removed only when the rewrite succeeded.
FilterBranchKeepsScriptOnFailure ==
    /\ bulk.pc = "rewriting"
    /\ \E succeeded \in BOOLEAN :
          IF succeeded
          THEN /\ legacyMessages' = Rewritten(legacyMessages)
               /\ filterBranchRuns' = filterBranchRuns + 1
               /\ bulk' = [bulk EXCEPT !.pc = "done", !.outcome = "rewritten"]
               /\ scriptFile' = FALSE
          ELSE /\ UNCHANGED <<legacyMessages, filterBranchRuns, scriptFile>>
               /\ bulk' = [bulk EXCEPT !.pc = "done", !.outcome = "failed"]
    /\ UNCHANGED bulkFormatted
    /\ BulkUnchanged

\* git filter-branch ends, with success or not; the script is removed.
FilterBranch ==
    /\ bulk.pc = "rewriting"
    /\ \E succeeded \in BOOLEAN :
          IF succeeded
          THEN /\ legacyMessages' = Rewritten(legacyMessages)
               /\ filterBranchRuns' = filterBranchRuns + 1
               /\ bulk' = [bulk EXCEPT !.pc = "done", !.outcome = "rewritten"]
          ELSE /\ UNCHANGED <<legacyMessages, filterBranchRuns>>
               /\ bulk' = [bulk EXCEPT !.pc = "done", !.outcome = "failed"]
    /\ scriptFile' = FALSE
    /\ UNCHANGED bulkFormatted
    /\ BulkUnchanged

NextBulk == BulkStart \/ AnswerProceed \/ AnswerRewrite \/ FilterBranch

SpecBulk == InitBulk /\ [][NextBulk]_vars

\* The conversions the migration guide documents: first word, type.
DocumentedPatterns ==
    {<<"add", "feat">>, <<"fix", "fix">>, <<"update", "chore">>, <<"refactor", "refactor">>}

\* The first character in upper case, a final period dropped.
Sentence(m) ==
    LET body == IF EndsWith(m, ".") THEN SubSeq(m, 1, Len(m) - 1) ELSE m
    IN  ToUpperChar(At(body, 1)) \o SubSeq(body, 2, Len(body))

\* C23: bulk-format converts every legacy commit that starts with a
\* documented word to the documented type followed by the sentence ('add new
\* feature' to 'feat: Add new feature'), however many other commits start
\* with that word.
C23_DocumentedPatternsApply ==
    bulkFormatted.called =>
        \A i \in 1..Len(bulkFormatted.value) :
            LET word == firstWordOf(bulkFormatted.value[i].original)
            IN  \A rule \in DocumentedPatterns :
                    word = rule[1]
                        => bulkFormatted.value[i].formatted
                               = rule[2] \o ": " \o Sentence(bulkFormatted.value[i].original)

\* What does hold: the documented type is given when more than 5 legacy
\* commits of the history start with the word, and chore otherwise.
DocumentedTypeAboveFiveCommits ==
    bulkFormatted.called /\ bulk.outcome # "rewritten" =>
        LET words == [j \in 1..Len(legacyMessages) |-> firstWordOf(legacyMessages[j])]
        IN  \A i \in 1..Len(bulkFormatted.value) :
                LET original == bulkFormatted.value[i].original
                    word == firstWordOf(original)
                    sameWord == {j \in 1..Len(legacyMessages) : words[j] = word}
                IN  \A rule \in DocumentedPatterns :
                        word = rule[1]
                            => bulkFormatted.value[i].formatted
                                   = (IF Cardinality(sameWord) > 5 THEN rule[2] ELSE "chore")
                                         \o ": " \o Sentence(original)

\* A single 'add new feature' is previewed as 'chore: Add new feature'.
AddBecomesChore ==
    /\ bulkFormatted.called
    /\ legacyMessages = <<"add new feature">>
    /\ bulkFormatted.value = <<[original |-> "add new feature",
                               formatted |-> "chore: Add new feature"]>>

\* Six commits 'add new feature' are previewed as 'feat: Add new feature'.
SixAddsBecomeFeat ==
    /\ bulkFormatted.called
    /\ legacyMessages = Repeat("add new feature", 6)
    /\ \A i \in 1..6 : bulkFormatted.value[i].formatted = "feat: Add new feature"

\* Both prompts were answered with yes and --dry-run was not given.
AgreedTwice(b) == ~b.dryRun /\ b.proceed = "yes" /\ b.confirmRewrite = "yes"

\* C26: the script is written and the history rewritten only without
\* --dry-run and after a yes to both prompts, the second asked after the yes
\* to the first; with --dry-run, without legacy commits or after a no,
\* neither happens; once the rewrite has ended, with success or not, the
\* script .git-rewrite-commits.sh is gone.
C26_RewriteOnlyAfterTwoYes ==
    [][/\ (\/ legacyMessages' # legacyMessages
           \/ filterBranchRuns' # filterBranchRuns
           \/ scriptFile' # scriptFile) => AgreedTwice(bulk') /\ bulk.proceed = "yes"
       /\ bulk'.confirmRewrite # "unasked" => bulk.proceed = "yes"
       /\ bulk'.outcome \in {"dry run", "no legacy commits", "cancelled", "rewrite cancelled"}
             => /\ ~scriptFile /\ ~scriptFile'
                /\ filterBranchRuns' = 0
                /\ legacyMessages' = legacyMessages
       /\ bulk'.outcome = "rewritten" =>
             filterBranchRuns' = filterBranchRuns + 1 /\ scriptFile /\ ~scriptFile'
       /\ bulk'.outcome = "failed" =>
             filterBranchRuns' = filterBranchRuns /\ scriptFile /\ ~scriptFile'
       /\ bulk'.pc = "done" => ~scriptFile']_vars

\* A rewrite that failed after two yes: the script is gone, the history is
\* as it was.
C26_Witness ==
    /\ bulk.pc = "done"
    /\ bulk.outcome = "failed"
    /\ AgreedTwice(bulk)
    /\ ~scriptFile
    /\ filterBranchRuns = 0
    /\ legacyMessages = <<"fix login bug.", "feat: done">>

\* A rewrite that succeeded.
HistoryRewritten ==
    /\ bulk.outcome = "rewritten"
    /\ AgreedTwice(bulk)
    /\ ~scriptFile
    /\ filterBranchRuns = 1
    /\ bulkFormatted.value = <<[original |-> "fix login bug.", formatted |-> "chore: Fix login bug"]>>
    /\ legacyMessages = <<"", "">>

-----------------------------------------------------------------------------
\* Claims about the release steps (releaseTasks.ts)

\* The release commit of the version is the last commit and nothing is left
\* uncommitted.
ReleaseCommitted(version) ==
    /\ history[Len(history)] = ReleaseCommitLine(version)
    /\ uncommitted = {}

\* The tag of the version stands on the last commit.
Tagged(version) == [name |-> "v" \o version, pos |-> Len(history)] \in tags

\* The branch and the tag of the version are on the remote.
Pushed(version) == remote.commits = Len(history) /\ ("v" \o version) \in remote.tags

\* C24: a release that is not a dry run writes the version to package.json,
\* commits, creates the tag v{version}, pushes the branch and the tag,
\* publishes to npm and creates the GitHub release, in that order: a step
\* acts only in a running release whose earlier steps have all succeeded,
\* npm publish only with the tag created and pushed, and a call that has
\* failed does none of the later steps.
C24_StepsInOrder ==
    [][/\ packageVersion' # packageVersion =>
             /\ release.pc = "package" /\ ~release.dryRun
             /\ packageVersion' = release.nextVersion
       /\ (history' # history /\ ~NoReleaseRunning) =>
             /\ release.pc = "commit"
             /\ packageVersion = release.nextVersion
             /\ history' = Append(history, ReleaseCommitLine(release.nextVersion))
       /\ tags' # tags =>
             /\ release.pc = "tag"
             /\ packageVersion = release.nextVersion
             /\ ReleaseCommitted(release.nextVersion)
             /\ tags' = tags \cup {[name |-> "v" \o release.nextVersion, pos |-> Len(history)]}
       /\ remote' # remote =>
             /\ release.pc = "push"
             /\ packageVersion = release.nextVersion
             /\ ReleaseCommitted(release.nextVersion)
             /\ Tagged(release.nextVersion)
       /\ npmPublished' # npmPublished =>
             /\ release.pc = "publish"
             /\ packageVersion = release.nextVersion
             /\ ReleaseCommitted(release.nextVersion)
             /\ Tagged(release.nextVersion)
             /\ Pushed(release.nextVersion)
             /\ npmPublished' = npmPublished \cup {release.nextVersion}
       /\ ghReleases' # ghReleases =>
             /\ release.pc = "github"
             /\ Tagged(release.nextVersion)
             /\ Pushed(release.nextVersion)
             /\ release.nextVersion \in npmPublished
             /\ \E r \in ghReleases' : r.tag = "v" \o release.nextVersion
       /\ NoReleaseRunning =>
             /\ UNCHANGED <<packageVersion, tags, remote, npmPublished, ghReleases>>
             /\ release' # release => release'.pc \in {"exited", "changelog"}
       /\ (release.pc # "failed" /\ release'.pc = "failed") =>
             UNCHANGED <<packageVersion, history, tags, npmPublished, ghReleases>>]_vars

\* A release of 2.0.0 has gone through all six steps.
C24_Witness ==
    /\ release.pc = "done"
    /\ ~release.dryRun
    /\ packageVersion = "2.0.0"
    /\ ReleaseCommitted("2.0.0")
    /\ Tagged("2.0.0")
    /\ Pushed("2.0.0")
    /\ npmPublished = {"2.0.0"}
    /\ \E r \in ghReleases : r.tag = "v2.0.0"

\* A release has failed when it pushed the tag: nothing is published.
PushFailedNothingPublished ==
    /\ release.pc = "failed"
    /\ release.failedAt = "push"
    /\ runs = 1
    /\ remote.commits = Len(history)
    /\ remote.tags \cap {"v2.0.0", "v1.10.0", "v1.9.10"} = {}
    /\ npmPublished = {}
    /\ ghReleases = {}

TagFailed == release.pc = "failed" /\ release.failedAt = "tag"

CommitFailed == release.pc = "failed" /\ release.failedAt = "commit" /\ uncommitted # {}

\* A createRelease call begins in this step.
ReleaseBegins == NoReleaseRunning /\ runs' = runs + 1 /\ release' # release

\* C25: a release that is not a dry run and is started with uncommitted
\* changes ends with exit code 1 in its first step, with CHANGELOG.md,
\* package.json, the history, the tags, the remote, npm and the GitHub
\* releases untouched, and the process that has exited does nothing more.
C25_DirtyReleaseExitsUntouched ==
    [][/\ (ReleaseBegins /\ ~release'.dryRun /\ uncommitted # {}) =>
             /\ release'.pc = "exited"
             /\ release'.exitCode = 1
             /\ UNCHANGED persistentVars
       /\ (ReleaseBegins /\ ~release'.dryRun /\ uncommitted = {}) => release'.pc = "changelog"
       /\ release.pc = "exited" =>
             /\ UNCHANGED <<packageVersion, tags, remote, npmPublished, ghReleases>>
             /\ release' # release => ReleaseBegins]_vars

\* The first command was a release with an uncommitted change: it has exited
\* with code 1 and everything is as it was.
C25_Witness ==
    /\ release.pc = "exited"
    /\ release.exitCode = 1
    /\ ~release.dryRun
    /\ runs = 1
    /\ uncommitted = {"src"}
    /\ changelogFile = NoFile
    /\ packageVersion = PackageVersion
    /\ persistentVars = atStart
    /\ npmPublished = {} /\ ghReleases = {}

\* C27: bumper preview, that is generateChangelog({preview: true}), leaves
\* CHANGELOG.md, package.json and the repository as they are, whatever the
\* history; when there are commits since the last tag it displays, next to
\* the current version, getNextVersion(current version,
\* determineReleaseType(commits)), and nothing of the kind when there are
\* none.
C27_PreviewChangesNothing ==
    [][handlePreview =>
          LET cs == getCommitsSinceLastTag(history, tags)
          IN  /\ UNCHANGED persistentVars
              /\ cs # <<>> =>
                    /\ console'.kind = "preview"
                    /\ console'.current = packageVersion
                    /\ console'.type = determineReleaseType(cs)
                    /\ console'.version = getNextVersion(packageVersion, determineReleaseType(cs))
              /\ cs = <<>> => console' = [kind |-> "no commits"]]_vars

\* The preview of the breaking fix committed after a release of 1.10.0 shows
\* 1.10.0 -> 2.0.0, and CHANGELOG.md holds the entry of the release only.
C27_Witness ==
    /\ runs = 2
    /\ console.kind = "preview"
    /\ console.current = "1.10.0"
    /\ console.version = "2.0.0"
    /\ console.type = "major"
    /\ packageVersion = "1.10.0"
    /\ release.pc = "done"
    /\ EntryCount(changelogFile) = 1

\* The step in which a createRelease call that is not a dry run returns.
ReleaseCompletes == release.pc = "github" /\ release'.pc = "done"

\* What the call has appended to the CHANGELOG.md it found.
AppendedTo(before, after) ==
    IF StartsWith(after, PreviousContent(before))
    THEN SubSeq(after, Len(PreviousContent(before)) + 1, Len(after))
    ELSE ""

FirstLine(text) == SplitOn(text, "\n")[1]

\* C28: when a release that is not a dry run completes, it has appended an
\* entry to CHANGELOG.md whose header carries the version that is written to
\* package.json, tagged as v{version} and returned in the ReleaseResult, and
\* the release notes returned are the header line of that entry.
C28_OneVersionEverywhere ==
    [][ReleaseCompletes =>
          LET result == release'.result
              entry == AppendedTo(atStart[1], changelogFile')
          IN  /\ result.version = packageVersion'
              /\ result.tag = "v" \o result.version
              /\ \E t \in tags' : t.name = result.tag
              /\ StartsWith(entry, "## [" \o result.version \o "] - ")
              /\ result.changelog = FirstLine(entry)]_vars

\* What does hold: package.json, the tag and the result agree on the version,
\* and the release notes are the last header line of CHANGELOG.md, whichever
\* run wrote it.
VersionOfPackageTagAndResult ==
    [][ReleaseCompletes =>
          LET result == release'.result
          IN  /\ result.version = packageVersion'
              /\ result.version = getNextVersion(atStart[2], release.type)
              /\ result.tag = "v" \o result.version
              /\ \E t \in tags' : t.name = result.tag
              /\ result.changelog = extractReleaseNotes(changelogFile')]_vars

\* A patch release over a breaking commit: package.json, tag and result say
\* 1.9.10, the entry appended says 2.0.0.
HeaderOfAnotherVersion ==
    /\ release.pc = "done"
    /\ ~release.dryRun
    /\ release.type = "patch"
    /\ release.result.version = "1.9.10"
    /\ packageVersion = "1.9.10"
    /\ StartsWith(release.result.changelog, "## [2.0.0] - ")

\* A release without a commit since the last tag: nothing is appended and
\* the release notes are the header of the entry of 1.9.9.
NotesOfEarlierEntry ==
    /\ release.pc = "done"
    /\ ~release.dryRun
    /\ runs = 1
    /\ changelogFile = EarlierChangelog
    /\ release.result.version # "1.9.9"
    /\ StartsWith(release.result.changelog, "## [1.9.9] - ")

-----------------------------------------------------------------------------
\* Claims about the sections (changelogGenerator.ts)

\* How often x occurs in the list.
Occurrences(list, x) == Cardinality({i \in 1..Len(list) : list[i] = x})

\* The place in the input of the first commit of a section.
FirstOccurrence(section, input) ==
    CHOOSE i \in 1..Len(input) :
        /\ input[i] \in Elements(section.commits)
        /\ \A j \in 1..(i - 1) : input[j] \notin Elements(section.commits)

\* C29: the sections categorizeCommits returns partition its input: every
\* commit is in one section only, there as often as in the input, and the
\* sections hold nothing else; no section is empty; no two sections have the
\* same title; the sections come in the order in which their first commits
\* come in the input.
C29_SectionsPartitionInput ==
    sections.called =>
        LET secs == sections.value
            K == 1..Len(secs)
        IN  /\ \A c \in Elements(commits) :
                  \E k \in K :
                      /\ Occurrences(secs[k].commits, c) = Occurrences(commits, c)
                      /\ \A j \in K \ {k} : Occurrences(secs[j].commits, c) = 0
            /\ \A k \in K : Elements(secs[k].commits) \subseteq Elements(commits)
            /\ \A k \in K : secs[k].commits # <<>>
            /\ \A j, k \in K : secs[j].title = secs[k].title => j = k
            /\ \A j, k \in K :
                  j < k => FirstOccurrence(secs[j], commits) < FirstOccurrence(secs[k], commits)

\* A fix, a feature and the same fix again: two sections, Bug Fixes with
\* the fix twice before Features with the feature.
C29_Witness ==
    /\ sections.called
    /\ Len(commits) = 3
    /\ commits[1] = commits[3]
    /\ commits[1].type = "fix" /\ commits[2].type = "feat"
    /\ Len(sections.value) = 2
    /\ sections.value[1].commits = <<commits[1], commits[1]>>
    /\ sections.value[2].commits = <<commits[2]>>

-----------------------------------------------------------------------------
\* Claims about the formatter's output and the validation

\* A valid conventional commit: of the grammar, with a subject that is not
\* blank, and passed by validateCommitMessage without an error.
AcceptedConventional(m) ==
    /\ OfConventionalForm(m)
    /\ AfterFirstColon(m) # ""
    /\ validateCommitMessage(m).isValid
    /\ validateCommitMessage(m).errors = <<>>

\* The call passes a message that is not empty and nothing else.
MessageAlone ==
    /\ formatArgs.message # ""
    /\ formatArgs.type = Undefined
    /\ formatArgs.scope = Undefined
    /\ ~formatArgs.breaking

\* C30: for every message that is not empty, formatCommitMessage(message)
\* and suggestCommitFormat(message).suggested are valid conventional commits:
\* a recognized type, a scope of word characters and hyphens if any, ': ' and
\* a subject that is not empty, accepted by validateCommitMessage without
\* errors.
C30_FormatterOutputIsValid ==
    MessageAlone =>
        /\ formatted.called => AcceptedConventional(formatted.value)
        /\ suggestion.called => AcceptedConventional(suggestion.value.suggested)

\* What does hold: the output is a valid conventional commit unless the
\* message is blank or has a parenthesized part that is not a scope.
ValidUnlessBlankOrParenthesized ==
    (/\ MessageAlone
     /\ Trim(formatArgs.message) \notin {"", "."}
     /\ \/ ParenPairs(formatArgs.message) = {}
        \/ AllIn(FirstParenContent(formatArgs.message, ParenPairs(formatArgs.message)),
                 WordChars \cup {"-"}))
        => /\ formatted.called => AcceptedConventional(formatted.value)
           /\ suggestion.called => AcceptedConventional(suggestion.value.suggested)

\* 'fix crash (issue 12)' is formatted as 'fix(issue 12): Fix crash (issue
\* 12)', which validateCommitMessage rejects.
ParenthesizedPartBecomesScope ==
    /\ MessageAlone
    /\ formatArgs.message = "fix crash (issue 12)"
    /\ formatted.called
    /\ formatted.value = "fix(issue 12): Fix crash (issue 12)"
    /\ suggestion.called
    /\ suggestion.value.suggested = formatted.value
    /\ ~validateCommitMessage(formatted.value).isValid

\* A blank message is formatted as 'chore: ', a commit without a subject.
BlankBecomesEmptySubject ==
    /\ MessageAlone
    /\ formatArgs.message = " "
    /\ formatted.called
    /\ formatted.value = "chore: "

=============================================================================
